---- MODULE Spec2Model ----
(***************************************************************************)
(* Model of pydb: the append-only log storage engine                       *)
(* (pydb/core/storage/logger.py), its two byte-stream backends             *)
(* (pydb/core/file/monolith.py, pydb/core/file/segment.py) and the         *)
(* in-memory offset index (pydb/core/index/in_memory.py).                  *)
(*                                                                         *)
(* Bytes are naturals in 0..255 and byte strings are sequences of them.    *)
(* A backend is a record                                                   *)
(*   [kind, mode, max_size, files, segments, cur, base, h]                 *)
(* where files maps the index of every segment file that exists on disk to *)
(* its bytes (the monolithic backend owns the single file 0), segments,    *)
(* cur and base are SegmentedFile._segments, _current_segment_index and    *)
(* _current_segment_base_offset, and h is the buffered OS handle (_file).  *)
(*                                                                         *)
(* The OS handle is the one Python's open() returns for a binary mode: a   *)
(* buffered stream.  Writes smaller than the buffer stay in the handle     *)
(* (h.pend) until the handle is flushed by a seek, a read or a close, so   *)
(* the size stat() reports (Segment.size) does not include them; a handle  *)
(* opened in an a mode starts at the end of the file and flushes at the    *)
(* end of the file whatever its position; a handle opened in a w mode      *)
(* truncates the file.  h.ra records that the handle holds read-ahead that *)
(* has not been consumed; the model issues no write on such a handle.      *)
(***************************************************************************)
EXTENDS Integers, Sequences, FiniteSets, TLC

VARIABLES file, index, result, sfile, sindex, sresult, sdata, hist

vars == <<file, index, result, sfile, sindex, sresult, sdata, hist>>

(* the engine over the monolithic backend, and everything segmented *)
engvars == <<file, index, result>>
segvars == <<sfile, sindex, sresult, sdata>>

(***************************************************************************)
(* Bounds of the model.                                                    *)
(***************************************************************************)
MaxOps == 3
MaxKeyLen == 1
MaxValLen == 1
MaxSegSize == 3
MaxData == 7
MaxRawOps == 5
MaxEqOps == 4
MaxCodecLen == 257

(***************************************************************************)
(* Program constants.                                                      *)
(***************************************************************************)
HeaderSize == 24
Huge == 16777216
SET == 0
DELETE == 1
SEEK_SET == 0
SEEK_CUR == 1
SEEK_END == 2

Modes == {"rb", "ab", "r+b", "a+b", "wb", "w+b"}

(* body with its parameter bound to the value of e: a local name for an    *)
(* intermediate result                                                     *)
Bind(e, body(_)) == body(e)

Min(a, b) == IF a < b THEN a ELSE b
Max(a, b) == IF a > b THEN a ELSE b

Zeros(n) == [i \in 1..n |-> 0]

(* bytes d[from .. to) with Python slice clamping, 0-based *)
Slice(d, from, to) == SubSeq(d, from + 1, Min(to, Len(d)))

(***************************************************************************)
(* The buffered OS handle.                                                 *)
(***************************************************************************)
NoHandle == [open |-> FALSE, seg |-> 0, pos |-> 0, pend |-> <<>>, pstart |-> 0, ra |-> FALSE]

HasR(mode) == mode \in {"rb", "r+b"}
HasW(mode) == mode \in {"wb", "w+b"}
HasA(mode) == mode \in {"ab", "a+b"}
HasPlus(mode) == mode \in {"r+b", "a+b", "w+b"}
Readable(mode) == HasR(mode) \/ HasPlus(mode)
Writable(mode) == ~HasR(mode) \/ HasPlus(mode)

(* stat().st_size, 0 when the file does not exist *)
FileSize(files, seg) == IF seg \in DOMAIN files THEN Len(files[seg]) ELSE 0

PutFile(files, seg, data) ==
    [s \in DOMAIN files \cup {seg} |-> IF s = seg THEN data ELSE files[s]]

(* Path.touch(): create the file empty unless it exists *)
Touch(files, seg) == IF seg \in DOMAIN files THEN files ELSE PutFile(files, seg, <<>>)

(* bytes w stored at offset at of d; a gap past the end reads as zeros *)
Overwrite(d, at, w) ==
    [i \in 1..Max(Len(d), at + Len(w)) |->
        IF i > at /\ i <= at + Len(w) THEN w[i - at]
        ELSE IF i <= Len(d) THEN d[i] ELSE 0]

(* open(path, mode): [files, h, err] *)
PyOpen(files, seg, mode) ==
    IF HasW(mode) THEN
        [files |-> PutFile(files, seg, <<>>),
         h |-> [NoHandle EXCEPT !.open = TRUE, !.seg = seg], err |-> ""]
    ELSE IF HasA(mode) THEN
        [files |-> Touch(files, seg),
         h |-> [NoHandle EXCEPT !.open = TRUE, !.seg = seg, !.pos = FileSize(files, seg)],
         err |-> ""]
    ELSE IF seg \in DOMAIN files THEN
        [files |-> files, h |-> [NoHandle EXCEPT !.open = TRUE, !.seg = seg], err |-> ""]
    ELSE [files |-> files, h |-> NoHandle, err |-> "FileNotFoundError"]

(* the buffered bytes reach the file: [files, h] *)
PyFlush(files, h, mode) ==
    IF h.pend = <<>> THEN [files |-> files, h |-> h]
    ELSE IF HasA(mode) THEN
        LET d == files[h.seg] \o h.pend
        IN [files |-> PutFile(files, h.seg, d),
            h |-> [h EXCEPT !.pend = <<>>, !.pstart = 0, !.pos = Len(d)]]
    ELSE
        [files |-> PutFile(files, h.seg, Overwrite(files[h.seg], h.pstart, h.pend)),
         h |-> [h EXCEPT !.pend = <<>>, !.pstart = 0]]

(* handle.close(): the files afterwards *)
PyClose(files, h, mode) == IF h.open THEN PyFlush(files, h, mode).files ELSE files

(* handle.write(data), data not empty: the handle afterwards *)
PyWrite(h, data) ==
    [h EXCEPT !.pend = h.pend \o data,
              !.pstart = IF h.pend = <<>> THEN h.pos ELSE h.pstart,
              !.pos = h.pos + Len(data)]

(* handle.read(n), n = -1 or n >= 0: [files, h, data] *)
PyRead(files, h, mode, n) ==
    IF n = 0 THEN [files |-> files, h |-> h, data |-> <<>>]
    ELSE
        Bind(PyFlush(files, h, mode), LAMBDA fl :
            LET d == fl.files[h.seg]
                got == IF n = -1 THEN Slice(d, fl.h.pos, Len(d))
                       ELSE Slice(d, fl.h.pos, fl.h.pos + n)
                np == fl.h.pos + Len(got)
            IN [files |-> fl.files,
                h |-> [fl.h EXCEPT !.pos = np, !.ra = (n # -1 /\ np < Len(d))],
                data |-> got])

(* handle.seek(offset, whence): [files, h, pos, err] *)
PySeek(files, h, mode, offset, whence) ==
    Bind(PyFlush(files, h, mode), LAMBDA fl :
        LET t == IF whence = SEEK_SET THEN offset
                 ELSE IF whence = SEEK_CUR THEN fl.h.pos + offset
                 ELSE Len(fl.files[h.seg]) + offset
        IN IF t < 0 THEN [files |-> fl.files, h |-> fl.h, pos |-> 0, err |-> "OSError"]
           ELSE [files |-> fl.files,
                 h |-> [fl.h EXCEPT !.pos = t,
                                    !.ra = IF whence = SEEK_END THEN FALSE ELSE fl.h.ra],
                 pos |-> t, err |-> ""])

(***************************************************************************)
(* Results of backend operations: the backend afterwards, the error raised *)
(* ("" when the call returns), the integer returned and the bytes returned.*)
(***************************************************************************)
Res(f, err, n, data) == [f |-> f, err |-> err, n |-> n, data |-> data]

(***************************************************************************)
(* MonolithicFile                                                          *)
(***************************************************************************)
MonolithicFile(mode, files) ==
    [kind |-> "mono", mode |-> mode, max_size |-> 0, files |-> files,
     segments |-> <<>>, cur |-> -1, base |-> 0, h |-> NoHandle]

MonoEnter(f) ==
    IF f.h.open THEN Res(f, "", 0, <<>>)
    ELSE Bind(PyOpen(IF HasR(f.mode) THEN Touch(f.files, 0) ELSE f.files, 0, f.mode),
              LAMBDA o : Res([f EXCEPT !.files = o.files, !.h = o.h], o.err, 0, <<>>))

MonoClose(f) == [f EXCEPT !.files = PyClose(f.files, f.h, f.mode), !.h = NoHandle]

MonoWrite(f, data) ==
    IF ~f.h.open THEN Res(f, "RuntimeError", 0, <<>>)
    ELSE IF ~Writable(f.mode) THEN Res(f, "UnsupportedOperation", 0, <<>>)
    ELSE IF data = <<>> THEN Res(f, "", 0, <<>>)
    ELSE Res([f EXCEPT !.h = PyWrite(f.h, data)], "", Len(data), <<>>)

MonoRead(f, size) ==
    IF ~f.h.open THEN Res(f, "RuntimeError", 0, <<>>)
    ELSE IF ~Readable(f.mode) THEN Res(f, "UnsupportedOperation", 0, <<>>)
    ELSE Bind(PyRead(f.files, f.h, f.mode, size),
              LAMBDA r : Res([f EXCEPT !.files = r.files, !.h = r.h], "", 0, r.data))

MonoSeek(f, offset, whence) ==
    IF ~f.h.open THEN Res(f, "RuntimeError", 0, <<>>)
    ELSE Bind(PySeek(f.files, f.h, f.mode, offset, whence),
              LAMBDA r : Res([f EXCEPT !.files = r.files, !.h = r.h], r.err, r.pos, <<>>))

MonoTell(f) ==
    IF ~f.h.open THEN Res(f, "RuntimeError", 0, <<>>) ELSE Res(f, "", f.h.pos, <<>>)

(***************************************************************************)
(* SegmentedFile                                                           *)
(***************************************************************************)
SegmentedFile(mode, max_size, files) ==
    [kind |-> "seg", mode |-> mode, max_size |-> max_size, files |-> files,
     segments |-> <<>>, cur |-> -1, base |-> 0, h |-> NoHandle]

RECURSIVE SortedSeq(_)
SortedSeq(S) ==
    IF S = {} THEN <<>>
    ELSE LET m == CHOOSE x \in S : \A y \in S : x <= y
         IN <<m>> \o SortedSeq(S \ {m})

RECURSIVE SumSizes(_, _, _)
(* sum(s.size for s in segments[:n]) *)
SumSizes(files, segments, n) ==
    IF n <= 0 THEN 0
    ELSE SumSizes(files, segments, n - 1) + FileSize(files, segments[n])

_load_segments(f) == [f EXCEPT !.segments = SortedSeq(DOMAIN f.files)]

(* an activation that keeps the base offset cached before it *)
_activate_segment_stale(f, i) ==
    IF ~(0 <= i /\ i < Len(f.segments)) THEN [f |-> f, err |-> "IndexError"]
    ELSE Bind(PyOpen(PyClose(f.files, f.h, f.mode), f.segments[i + 1], f.mode), LAMBDA o :
             [f |-> [f EXCEPT !.files = o.files, !.h = o.h, !.cur = i], err |-> o.err])

(* [f, err]; index is the 0-based position in the segment list *)
_activate_segment(f, i) ==
    IF ~(0 <= i /\ i < Len(f.segments)) THEN [f |-> f, err |-> "IndexError"]
    ELSE Bind(PyOpen(PyClose(f.files, f.h, f.mode), f.segments[i + 1], f.mode), LAMBDA o :
             [f |-> [f EXCEPT !.files = o.files, !.h = o.h, !.cur = i,
                              !.base = IF o.err = "" THEN SumSizes(o.files, f.segments, i)
                                       ELSE f.base],
              err |-> o.err])

_create_and_activate_next_segment(f) ==
    LET next_index == IF f.segments = <<>> THEN 0 ELSE f.segments[Len(f.segments)] + 1
    IN _activate_segment([f EXCEPT !.files = Touch(f.files, next_index),
                                   !.segments = Append(f.segments, next_index)],
                         Len(f.segments))

_delete_all_segments(f) ==
    Bind(IF f.segments = <<>> THEN _load_segments(f) ELSE f, LAMBDA g :
        LET gone == {g.segments[j] : j \in 1..Len(g.segments)}
        IN [g EXCEPT !.files = [s \in DOMAIN g.files \ gone |-> g.files[s]],
                     !.segments = <<>>, !.cur = -1, !.base = 0])

RECURSIVE SegWriteLoop(_, _, _)
(* the while loop of SegmentedFile.write *)
SegWriteLoop(f, data, total_written) ==
    IF ~(total_written < Len(data)) THEN Res(f, "", total_written, <<>>)
    ELSE
        Bind(IF f.max_size - f.h.pos <= 0 THEN _create_and_activate_next_segment(f)
             ELSE [f |-> f, err |-> ""], LAMBDA a :
            LET space_left == f.max_size - a.f.h.pos
                chunk_size == Min(Len(data) - total_written, space_left)
            IN IF a.err # "" THEN Res(a.f, a.err, 0, <<>>)
               ELSE IF chunk_size <= 0 THEN Res(a.f, "Diverges", 0, <<>>)
               ELSE SegWriteLoop(
                        [a.f EXCEPT !.h = PyWrite(a.f.h, Slice(data, total_written,
                                                               total_written + chunk_size))],
                        data, total_written + chunk_size))

(* a write that rolls over as soon as it has filled the active segment *)
SegWriteEager(f, data) ==
    IF HasR(f.mode) /\ ~HasPlus(f.mode) THEN Res(f, "IOError", 0, <<>>)
    ELSE IF ~f.h.open THEN Res(f, "RuntimeError", 0, <<>>)
    ELSE Bind(SegWriteLoop(f, data, 0), LAMBDA w :
             IF w.err # "" \/ w.f.max_size - w.f.h.pos > 0 THEN w
             ELSE Bind(_create_and_activate_next_segment(w.f),
                       LAMBDA a : Res(a.f, a.err, w.n, <<>>)))

SegWrite(f, data) ==
    IF HasR(f.mode) /\ ~HasPlus(f.mode) THEN Res(f, "IOError", 0, <<>>)
    ELSE IF ~f.h.open THEN Res(f, "RuntimeError", 0, <<>>)
    ELSE SegWriteLoop(f, data, 0)

RECURSIVE SegReadLoop(_, _, _)
(* the while loop of SegmentedFile.read; chunks is the bytes read so far *)
SegReadLoop(f, size, chunks) ==
    IF ~(size = -1 \/ Len(chunks) < size) THEN Res(f, "", 0, chunks)
    ELSE
        LET request_size == IF size = -1 THEN -1 ELSE size - Len(chunks)
        IN Bind(PyRead(f.files, f.h, f.mode, request_size), LAMBDA r :
            LET g == [f EXCEPT !.files = r.files, !.h = r.h]
                got == chunks \o r.data
            IN IF r.data = <<>> \/ (size # -1 /\ Len(r.data) < request_size) THEN
                   IF g.cur + 1 < Len(g.segments) THEN
                       Bind(_activate_segment(g, g.cur + 1), LAMBDA a :
                           IF a.err # "" THEN Res(a.f, a.err, 0, <<>>)
                           ELSE SegReadLoop(a.f, size, got))
                   ELSE Res(g, "", 0, got)
               ELSE SegReadLoop(g, size, got))

SegRead(f, size) ==
    IF HasW(f.mode) /\ ~HasPlus(f.mode) THEN Res(f, "IOError", 0, <<>>)
    ELSE IF ~f.h.open THEN Res(f, "RuntimeError", 0, <<>>)
    ELSE IF ~Readable(f.mode) /\ (size = -1 \/ size > 0) THEN Res(f, "UnsupportedOperation", 0, <<>>)
    ELSE SegReadLoop(f, size, <<>>)

(* a tell that answers whether or not the backend is open *)
SegTellUnchecked(f) == Res(f, "", f.base + f.h.pos, <<>>)

SegTell(f) ==
    IF ~f.h.open THEN Res(f, "RuntimeError", 0, <<>>) ELSE Res(f, "", f.base + f.h.pos, <<>>)

RECURSIVE SeekScan(_, _, _, _)
(* the for loop of SegmentedFile.seek: the 0-based position of the first   *)
(* segment whose range holds target, with the bytes before it, or -1      *)
SeekScan(f, target, i, accumulated) ==
    IF i >= Len(f.segments) THEN [i |-> -1, accumulated |-> accumulated]
    ELSE LET seg_size == FileSize(f.files, f.segments[i + 1])
         IN IF accumulated <= target /\ target < accumulated + seg_size
            THEN [i |-> i, accumulated |-> accumulated]
            ELSE SeekScan(f, target, i + 1, accumulated + seg_size)

(* handle.seek(local) on the active handle, returning target *)
SegHandleSeek(f, local, target) ==
    Bind(PySeek(f.files, f.h, f.mode, local, SEEK_SET),
         LAMBDA r : Res([f EXCEPT !.files = r.files, !.h = r.h], r.err, target, <<>>))

SegSeek(f, offset, whence) ==
    IF ~f.h.open THEN Res(f, "RuntimeError", 0, <<>>)
    ELSE IF whence \notin {SEEK_SET, SEEK_CUR, SEEK_END} THEN Res(f, "ValueError", 0, <<>>)
    ELSE
        LET total_size == SumSizes(f.files, f.segments, Len(f.segments))
            raw == IF whence = SEEK_SET THEN offset
                   ELSE IF whence = SEEK_CUR THEN f.base + f.h.pos + offset
                   ELSE total_size + offset
            target == Max(0, raw)
            curr_start == f.base
            curr_end == curr_start + FileSize(f.files, f.segments[f.cur + 1])
        IN IF curr_start <= target /\ target <= curr_end
           THEN SegHandleSeek(f, target - curr_start, target)
           ELSE
               Bind(SeekScan(f, target, 0, 0), LAMBDA hit :
                   IF hit.i # -1 THEN
                       Bind(_activate_segment(f, hit.i), LAMBDA a :
                           IF a.err # "" THEN Res(a.f, a.err, 0, <<>>)
                           ELSE SegHandleSeek(a.f, target - hit.accumulated, target))
                   ELSE IF f.segments # <<>> THEN
                       Bind(_activate_segment(f, Len(f.segments) - 1), LAMBDA a :
                           IF a.err # "" THEN Res(a.f, a.err, 0, <<>>)
                           ELSE SegHandleSeek(a.f, target - a.f.base, target))
                   ELSE IF HasW(f.mode) \/ HasA(f.mode) THEN
                       Bind(_create_and_activate_next_segment(f),
                            LAMBDA a : Res(a.f, a.err, target, <<>>))
                   ELSE Res(f, "", 0, <<>>))

SegClose(f) == [f EXCEPT !.files = PyClose(f.files, f.h, f.mode), !.h = NoHandle]

(* a scoped entry that opens again whether or not the backend is open *)
SegEnterReopens(f) ==
        Bind(IF HasW(f.mode) THEN _delete_all_segments(f) ELSE _load_segments(f), LAMBDA g :
            LET can_create == HasW(f.mode) \/ HasA(f.mode)
            IN IF g.segments = <<>> THEN
                   IF ~can_create THEN Res(g, "FileNotFoundError", 0, <<>>)
                   ELSE Bind(_create_and_activate_next_segment(g),
                             LAMBDA a : Res(a.f, a.err, 0, <<>>))
               ELSE IF HasA(f.mode) THEN
                   Bind(_activate_segment(g, Len(g.segments) - 1), LAMBDA a :
                       IF a.err # "" THEN Res(a.f, a.err, 0, <<>>)
                       ELSE Bind(PySeek(a.f.files, a.f.h, a.f.mode, 0, SEEK_END), LAMBDA r :
                                Res([a.f EXCEPT !.files = r.files, !.h = r.h], r.err, 0, <<>>)))
               ELSE
                   Bind(_activate_segment(g, 0), LAMBDA a :
                       IF a.err # "" THEN Res(a.f, a.err, 0, <<>>)
                       ELSE SegHandleSeek(a.f, 0, 0)))

(* a scoped entry that activates the first segment in every mode *)
SegEnterAtFirst(f) ==
    IF f.h.open THEN Res(f, "", 0, <<>>)
    ELSE
        Bind(IF HasW(f.mode) THEN _delete_all_segments(f) ELSE _load_segments(f), LAMBDA g :
            LET can_create == HasW(f.mode) \/ HasA(f.mode)
            IN IF g.segments = <<>> THEN
                   IF ~can_create THEN Res(g, "FileNotFoundError", 0, <<>>)
                   ELSE Bind(_create_and_activate_next_segment(g),
                             LAMBDA a : Res(a.f, a.err, 0, <<>>))
               ELSE
                   Bind(_activate_segment(g, 0), LAMBDA a :
                       IF a.err # "" THEN Res(a.f, a.err, 0, <<>>)
                       ELSE SegHandleSeek(a.f, 0, 0)))

SegEnter(f) ==
    IF f.h.open THEN Res(f, "", 0, <<>>)
    ELSE
        Bind(IF HasW(f.mode) THEN _delete_all_segments(f) ELSE _load_segments(f), LAMBDA g :
            LET can_create == HasW(f.mode) \/ HasA(f.mode)
            IN IF g.segments = <<>> THEN
                   IF ~can_create THEN Res(g, "FileNotFoundError", 0, <<>>)
                   ELSE Bind(_create_and_activate_next_segment(g),
                             LAMBDA a : Res(a.f, a.err, 0, <<>>))
               ELSE IF HasA(f.mode) THEN
                   Bind(_activate_segment(g, Len(g.segments) - 1), LAMBDA a :
                       IF a.err # "" THEN Res(a.f, a.err, 0, <<>>)
                       ELSE Bind(PySeek(a.f.files, a.f.h, a.f.mode, 0, SEEK_END), LAMBDA r :
                                Res([a.f EXCEPT !.files = r.files, !.h = r.h], r.err, 0, <<>>)))
               ELSE
                   Bind(_activate_segment(g, 0), LAMBDA a :
                       IF a.err # "" THEN Res(a.f, a.err, 0, <<>>)
                       ELSE SegHandleSeek(a.f, 0, 0)))

(***************************************************************************)
(* The byte-stream interface, dispatched on the backend.                   *)
(***************************************************************************)
FEnter(f) == IF f.kind = "mono" THEN MonoEnter(f) ELSE SegEnter(f)
(* a scope exit that writes out what the handle holds and leaves it open *)
FExitFlushes(f) ==
    Bind(PyFlush(f.files, f.h, f.mode), LAMBDA fl : [f EXCEPT !.files = fl.files, !.h = fl.h])

FExit(f) == IF f.kind = "mono" THEN MonoClose(f) ELSE SegClose(f)
(* a backend on a failing device carries a field budget, the number of     *)
(* write calls the device still accepts; the next one raises OSError and   *)
(* writes nothing                                                          *)
FailingWrite(f, data) ==
    IF f.budget = 0 THEN Res(f, "OSError", 0, <<>>)
    ELSE IF f.kind = "mono" THEN MonoWrite([f EXCEPT !.budget = @ - 1], data)
    ELSE SegWrite([f EXCEPT !.budget = @ - 1], data)

FWrite(f, data) ==
    IF "budget" \in DOMAIN f THEN FailingWrite(f, data)
    ELSE IF f.kind = "mono" THEN MonoWrite(f, data) ELSE SegWrite(f, data)
FRead(f, size) == IF f.kind = "mono" THEN MonoRead(f, size) ELSE SegRead(f, size)
FSeek(f, offset, whence) ==
    IF f.kind = "mono" THEN MonoSeek(f, offset, whence) ELSE SegSeek(f, offset, whence)
FTell(f) == IF f.kind = "mono" THEN MonoTell(f) ELSE SegTell(f)

(* the logical byte stream on disk: the files in ascending index order *)
RECURSIVE Concat(_, _)
Concat(files, segs) ==
    IF segs = <<>> THEN <<>> ELSE files[Head(segs)] \o Concat(files, Tail(segs))

LogBytes(f) == Concat(f.files, SortedSeq(DOMAIN f.files))

(***************************************************************************)
(* InMemoryIndex: a function from the keys present to their offsets.       *)
(***************************************************************************)
InMemoryIndex == <<>>

IndexHas(idx, key) == key \in DOMAIN idx

(* a set that never re-points a key the index already has *)
IndexSetKeepsFirst(idx, key, offset) ==
    [k \in DOMAIN idx \cup {key} |-> IF k \in DOMAIN idx THEN idx[k] ELSE offset]

IndexSet(idx, key, offset) ==
    [k \in DOMAIN idx \cup {key} |-> IF k = key THEN offset ELSE idx[k]]

(* a delete that empties the index *)
IndexDeleteAll(idx, key) == [k \in {} |-> 0]

IndexDelete(idx, key) == [k \in DOMAIN idx \ {key} |-> idx[k]]

(* dict.get(key) when the key is absent *)
None == <<>>

(* a get that takes every falsy offset, 0 included, for a missing key *)
IndexGetFalsy(idx, key) ==
    LET offset == IF key \in DOMAIN idx THEN idx[key] ELSE None
    IN IF offset = None \/ offset = <<0>>
       THEN [err |-> "InMemoryIndexKeyNotFoundError", key |-> key, offset |-> None]
       ELSE [err |-> "", key |-> <<>>, offset |-> offset]

(* InMemoryIndex.get: [err, key, offset] *)
IndexGet(idx, key) ==
    LET offset == IF key \in DOMAIN idx THEN idx[key] ELSE None
    IN IF offset = None
       THEN [err |-> "InMemoryIndexKeyNotFoundError", key |-> key, offset |-> None]
       ELSE [err |-> "", key |-> <<>>, offset |-> offset]

(***************************************************************************)
(* Record codec: Struct("BQQ") in native layout is the operation byte, 7   *)
(* bytes of alignment padding and two little-endian 64-bit sizes.          *)
(***************************************************************************)
RECURSIVE PackLE(_, _)
PackLE(n, count) == IF count = 0 THEN <<>> ELSE <<n % 256>> \o PackLE(n \div 256, count - 1)

Pack64(n) == PackLE(n, 8)

(* sizes of 2^24 and more exceed every file of the model and are all read  *)
(* as Huge, which keeps the arithmetic within 32-bit integers              *)
Unpack64(b) ==
    IF \E i \in 4..8 : b[i] # 0 THEN Huge
    ELSE b[1] + 256 * b[2] + 65536 * b[3]

(* a header packed with the two sizes in the wrong order *)
HeaderToBytesSwapped(operation, key_size, value_size) ==
    <<operation>> \o Zeros(7) \o Pack64(value_size) \o Pack64(key_size)

HeaderToBytes(operation, key_size, value_size) ==
    <<operation>> \o Zeros(7) \o Pack64(key_size) \o Pack64(value_size)

(* a header decoded as if its three fields were packed without padding *)
HeaderFromBytesPacked(data) ==
    [operation |-> data[1],
     key_size |-> Unpack64(SubSeq(data, 2, 9)),
     value_size |-> Unpack64(SubSeq(data, 10, 17)),
     err |-> IF data[1] \in {SET, DELETE} THEN "" ELSE "LogStorageError"]

(* AppendOnlyLogHeader.from_bytes: [operation, key_size, value_size, err] *)
HeaderFromBytes(data) ==
    [operation |-> data[1],
     key_size |-> Unpack64(SubSeq(data, 9, 16)),
     value_size |-> Unpack64(SubSeq(data, 17, 24)),
     err |-> IF data[1] \in {SET, DELETE} THEN "" ELSE "LogStorageError"]

(* a record written with the header packed into 17 bytes, without the     *)
(* alignment padding                                                       *)
to_stream_packed(f, operation, key, value) ==
    Bind(FWrite(f, <<operation>> \o Pack64(Len(key)) \o Pack64(Len(value))), LAMBDA w1 :
        IF w1.err # "" THEN w1
        ELSE Bind(FWrite(w1.f, key \o value), LAMBDA w2 :
                 IF w2.err # "" THEN w2
                 ELSE Res(w2.f, "", w1.n + w2.n, <<>>)))

(* AppendOnlyLogRecord.to_stream *)
to_stream(f, operation, key, value) ==
    Bind(FWrite(f, HeaderToBytes(operation, Len(key), Len(value))), LAMBDA w1 :
        IF w1.err # "" THEN w1
        ELSE Bind(FWrite(w1.f, key \o value), LAMBDA w2 :
                 IF w2.err # "" THEN w2
                 ELSE Res(w2.f, "", w1.n + w2.n, <<>>)))

Rec(f, err, eof, offset, operation, key, value) ==
    [f |-> f, err |-> err, eof |-> eof, offset |-> offset,
     operation |-> operation, key |-> key, value |-> value]

(* AppendOnlyLogRecord.from_stream: eof is the None result *)
from_stream(f) ==
    Bind(FTell(f), LAMBDA t :
    IF t.err # "" THEN Rec(f, t.err, FALSE, 0, 0, <<>>, <<>>)
    ELSE Bind(FRead(f, HeaderSize), LAMBDA hd :
    IF hd.err # "" THEN Rec(hd.f, hd.err, FALSE, t.n, 0, <<>>, <<>>)
    ELSE IF hd.data = <<>> THEN Rec(hd.f, "", TRUE, t.n, 0, <<>>, <<>>)
    ELSE IF Len(hd.data) < HeaderSize
         THEN Rec(hd.f, "LogCorruptedError", FALSE, t.n, 0, <<>>, <<>>)
    ELSE Bind(HeaderFromBytes(hd.data), LAMBDA header :
    IF header.err # "" THEN Rec(hd.f, "LogCorruptedError", FALSE, t.n, 0, <<>>, <<>>)
    ELSE Bind(FRead(hd.f, header.key_size + header.value_size), LAMBDA pl :
    IF pl.err # "" \/ Len(pl.data) # header.key_size + header.value_size
    THEN Rec(pl.f, "LogCorruptedError", FALSE, t.n, 0, <<>>, <<>>)
    ELSE Rec(pl.f, "", FALSE, t.n, header.operation,
             SubSeq(pl.data, 1, header.key_size),
             SubSeq(pl.data, header.key_size + 1, header.key_size + header.value_size))))))

(***************************************************************************)
(* AppendOnlyLogStorage.  An engine operation yields the backend and the   *)
(* index afterwards, the error raised ("" when it returns) with the key or *)
(* offset the error carries, and the value returned.                       *)
(***************************************************************************)
Eng(f, idx, err, value, key, offset) ==
    [f |-> f, index |-> idx, err |-> err, value |-> value, key |-> key, offset |-> offset]

RECURSIVE _build_index(_, _)
_build_index(f, idx) ==
    Bind(from_stream(f), LAMBDA record :
        IF record.err # "" THEN Eng(record.f, idx, record.err, <<>>, <<>>, record.offset)
        ELSE IF record.eof THEN Eng(record.f, idx, "", <<>>, <<>>, 0)
        ELSE IF record.operation = DELETE
             THEN _build_index(record.f, IndexDelete(idx, record.key))
        ELSE _build_index(record.f, IndexSet(idx, record.key, record.offset)))

(* a constructor that empties the index it is given before the scan *)
ConstructClearing(f, idx) ==
    Bind(FEnter(f), LAMBDA e :
        IF e.err # "" THEN Eng(e.f, idx, e.err, <<>>, <<>>, 0)
        ELSE Bind(_build_index(e.f, InMemoryIndex), LAMBDA b :
                 IF b.err # "" THEN Eng(FExit(b.f), b.index, b.err, <<>>, <<>>, b.offset)
                 ELSE Bind(FSeek(b.f, 0, SEEK_END), LAMBDA s :
                          Eng(FExit(s.f), b.index, s.err, <<>>, <<>>, 0))))

(* AppendOnlyLogStorage.__init__ *)
Construct(f, idx) ==
    Bind(FEnter(f), LAMBDA e :
        IF e.err # "" THEN Eng(e.f, idx, e.err, <<>>, <<>>, 0)
        ELSE Bind(_build_index(e.f, idx), LAMBDA b :
                 IF b.err # "" THEN Eng(FExit(b.f), b.index, b.err, <<>>, <<>>, b.offset)
                 ELSE Bind(FSeek(b.f, 0, SEEK_END), LAMBDA s :
                          Eng(FExit(s.f), b.index, s.err, <<>>, <<>>, 0))))

(* an append that reports the position after the record, not before it *)
_append_record_after(f, operation, key, value) ==
    Bind(to_stream(f, operation, key, value), LAMBDA w :
        IF w.err # "" THEN Res(w.f, w.err, 0, <<>>)
        ELSE Bind(FTell(w.f), LAMBDA offset : Res(w.f, offset.err, offset.n, <<>>)))

(* [f, err, offset]: the offset at which the record was written *)
_append_record(f, operation, key, value) ==
    Bind(FTell(f), LAMBDA offset :
        IF offset.err # "" THEN Res(f, offset.err, 0, <<>>)
        ELSE Bind(to_stream(f, operation, key, value),
                  LAMBDA w : Res(w.f, w.err, offset.n, <<>>)))

(* a load that decodes at the position the handle is at, without seeking *)
_load_record_at_here(f, offset) ==
    Bind(from_stream(f), LAMBDA record :
        IF record.err # "" THEN record
        ELSE IF record.eof
             THEN [record EXCEPT !.err = "LogInvalidOffsetError", !.offset = offset]
        ELSE record)

_load_record_at(f, offset) ==
    Bind(FSeek(f, offset, SEEK_SET), LAMBDA s :
        IF s.err # "" THEN Rec(s.f, s.err, FALSE, offset, 0, <<>>, <<>>)
        ELSE Bind(from_stream(s.f), LAMBDA record :
                 IF record.err # "" THEN record
                 ELSE IF record.eof
                      THEN [record EXCEPT !.err = "LogInvalidOffsetError", !.offset = offset]
                 ELSE record))

(* a get whose LogKeyNotFoundError does not carry the key asked for *)
get_unkeyed(f, idx, key) ==
    IF ~IndexHas(idx, key) THEN Eng(f, idx, "LogKeyNotFoundError", <<>>, <<>>, 0)
    ELSE
        LET offset == idx[key]
        IN Bind(FEnter(f), LAMBDA e :
            IF e.err # "" THEN Eng(e.f, idx, e.err, <<>>, <<>>, 0)
            ELSE Bind(_load_record_at(e.f, offset), LAMBDA record :
                IF record.err # ""
                THEN Eng(FExit(record.f), idx, record.err, <<>>, <<>>, record.offset)
                ELSE IF record.key = key
                     THEN Eng(FExit(record.f), idx, "", record.value, <<>>, 0)
                ELSE Eng(FExit(record.f), IndexDelete(idx, key), "LogInvalidOffsetError",
                         <<>>, <<>>, offset)))

get(f, idx, key) ==
    IF ~IndexHas(idx, key) THEN Eng(f, idx, "LogKeyNotFoundError", <<>>, key, 0)
    ELSE
        LET offset == idx[key]
        IN Bind(FEnter(f), LAMBDA e :
            IF e.err # "" THEN Eng(e.f, idx, e.err, <<>>, <<>>, 0)
            ELSE Bind(_load_record_at(e.f, offset), LAMBDA record :
                IF record.err # ""
                THEN Eng(FExit(record.f), idx, record.err, <<>>, <<>>, record.offset)
                ELSE IF record.key = key
                     THEN Eng(FExit(record.f), idx, "", record.value, <<>>, 0)
                ELSE Eng(FExit(record.f), IndexDelete(idx, key), "LogInvalidOffsetError",
                         <<>>, <<>>, offset)))

(* a set that appends the record and leaves the index as it is *)
set_unindexed(f, idx, key, value) ==
    Bind(FEnter(f), LAMBDA e :
        IF e.err # "" THEN Eng(e.f, idx, e.err, <<>>, <<>>, 0)
        ELSE Bind(_append_record(e.f, SET, key, value), LAMBDA a :
                 IF a.err # "" THEN Eng(FExit(a.f), idx, a.err, <<>>, <<>>, 0)
                 ELSE Eng(FExit(a.f), idx, "", <<>>, <<>>, 0)))

(* a set that updates the index whether or not the append succeeded *)
set_indexes_anyway(f, idx, key, value) ==
    Bind(FEnter(f), LAMBDA e :
        IF e.err # "" THEN Eng(e.f, idx, e.err, <<>>, <<>>, 0)
        ELSE Bind(_append_record(e.f, SET, key, value), LAMBDA a :
                 Eng(FExit(a.f), IndexSet(idx, key, a.n), a.err, <<>>, <<>>, 0)))

(* a set that indexes the position after the record it appended *)
set_indexes_end(f, idx, key, value) ==
    Bind(FEnter(f), LAMBDA e :
        IF e.err # "" THEN Eng(e.f, idx, e.err, <<>>, <<>>, 0)
        ELSE Bind(_append_record(e.f, SET, key, value), LAMBDA a :
                 IF a.err # "" THEN Eng(FExit(a.f), idx, a.err, <<>>, <<>>, 0)
                 ELSE Eng(FExit(a.f), IndexSet(idx, key, FTell(a.f).n), "", <<>>, <<>>, 0)))

set(f, idx, key, value) ==
    Bind(FEnter(f), LAMBDA e :
        IF e.err # "" THEN Eng(e.f, idx, e.err, <<>>, <<>>, 0)
        ELSE Bind(_append_record(e.f, SET, key, value), LAMBDA a :
                 IF a.err # "" THEN Eng(FExit(a.f), idx, a.err, <<>>, <<>>, 0)
                 ELSE Eng(FExit(a.f), IndexSet(idx, key, a.n), "", <<>>, <<>>, 0)))

(* a delete that appends the tombstone and keeps the index entry *)
delete_keeps_entry(f, idx, key) ==
    IF ~IndexHas(idx, key) THEN Eng(f, idx, "", <<>>, <<>>, 0)
    ELSE
        Bind(FEnter(f), LAMBDA e :
            IF e.err # "" THEN Eng(e.f, idx, e.err, <<>>, <<>>, 0)
            ELSE Bind(_append_record(e.f, DELETE, key, <<>>), LAMBDA a :
                     IF a.err # "" THEN Eng(FExit(a.f), idx, a.err, <<>>, <<>>, 0)
                     ELSE Eng(FExit(a.f), idx, "", <<>>, <<>>, 0)))

(* a delete that appends a tombstone whether or not the index has the key *)
delete_unguarded(f, idx, key) ==
    Bind(FEnter(f), LAMBDA e :
        IF e.err # "" THEN Eng(e.f, idx, e.err, <<>>, <<>>, 0)
        ELSE Bind(_append_record(e.f, DELETE, key, <<>>), LAMBDA a :
                 IF a.err # "" THEN Eng(FExit(a.f), idx, a.err, <<>>, <<>>, 0)
                 ELSE Eng(FExit(a.f), IndexDelete(idx, key), "", <<>>, <<>>, 0)))

delete(f, idx, key) ==
    IF ~IndexHas(idx, key) THEN Eng(f, idx, "", <<>>, <<>>, 0)
    ELSE
        Bind(FEnter(f), LAMBDA e :
            IF e.err # "" THEN Eng(e.f, idx, e.err, <<>>, <<>>, 0)
            ELSE Bind(_append_record(e.f, DELETE, key, <<>>), LAMBDA a :
                     IF a.err # "" THEN Eng(FExit(a.f), idx, a.err, <<>>, <<>>, 0)
                     ELSE Eng(FExit(a.f), IndexDelete(idx, key), "", <<>>, <<>>, 0)))

(***************************************************************************)
(* Inputs.                                                                 *)
(***************************************************************************)
KeyBytes == {1}
ValueBytes == {1, 2}

SeqsUpTo(S, n) == UNION {[1..m -> S] : m \in 0..n}

Keys == SeqsUpTo(KeyBytes, MaxKeyLen)
Values == SeqsUpTo(ValueBytes, MaxValLen)

Outcome(r) == [err |-> r.err, value |-> r.value, key |-> r.key, offset |-> r.offset]

NoOutcome == [err |-> "", value |-> <<>>, key |-> <<>>, offset |-> 0]

Last(s) == s[Len(s)]

Call(op, arg, whence) == [op |-> op, arg |-> arg, whence |-> whence]

(* what a backend call returned or raised *)
Raw(r) == [err |-> r.err, n |-> r.n, data |-> r.data]

NoRaw == [err |-> "", n |-> 0, data |-> <<>>]

(***************************************************************************)
(* Spec: one caller drives an engine over a MonolithicFile in mode "a+b"   *)
(* in a fresh directory; the engine may be dropped and a new one built     *)
(* over the same file with a fresh index.  hist is the sequence of calls   *)
(* made so far and result the outcome of the last one.                     *)
(***************************************************************************)
Init ==
    /\ \E c \in {Construct(MonolithicFile("a+b", <<>>), InMemoryIndex)} :
           /\ file = c.f
           /\ index = c.index
           /\ result = Outcome(c)
    /\ sfile = SegmentedFile("a+b", 1, <<>>)
    /\ sindex = InMemoryIndex
    /\ sresult = NoOutcome
    /\ sdata = <<>>
    /\ hist = <<>>

Set(k, v) ==
    /\ Len(hist) < MaxOps
    /\ \E r \in {set(file, index, k, v)} :
           /\ file' = r.f
           /\ index' = r.index
           /\ result' = Outcome(r)
    /\ hist' = Append(hist, [op |-> "set", key |-> k, value |-> v])
    /\ UNCHANGED segvars

Get(k) ==
    /\ Len(hist) < MaxOps
    /\ \E r \in {get(file, index, k)} :
           /\ file' = r.f
           /\ index' = r.index
           /\ result' = Outcome(r)
    /\ hist' = Append(hist, [op |-> "get", key |-> k, value |-> <<>>])
    /\ UNCHANGED segvars

Delete(k) ==
    /\ Len(hist) < MaxOps
    /\ \E r \in {delete(file, index, k)} :
           /\ file' = r.f
           /\ index' = r.index
           /\ result' = Outcome(r)
    /\ hist' = Append(hist, [op |-> "delete", key |-> k, value |-> <<>>])
    /\ UNCHANGED segvars

(* the engine is dropped; a new one is constructed over the same file *)
Restart ==
    /\ Len(hist) < MaxOps
    /\ \E c \in {Construct(MonolithicFile("a+b", file.files), InMemoryIndex)} :
           /\ file' = c.f
           /\ index' = c.index
           /\ result' = Outcome(c)
    /\ hist' = Append(hist, [op |-> "restart", key |-> <<>>, value |-> <<>>])
    /\ UNCHANGED segvars

Next ==
    \/ \E k \in Keys, v \in Values : Set(k, v)
    \/ \E k \in Keys : Get(k)
    \/ \E k \in Keys : Delete(k)
    \/ Restart

Spec == Init /\ [][Next]_vars

(***************************************************************************)
(* SpecSeg: one caller drives a SegmentedFile directly, in mode "a+b" and  *)
(* with any cap up to MaxSegSize, starting from an empty directory: scoped *)
(* opens and closes, writes, reads, seeks and tells in any order, at most  *)
(* MaxRawOps calls.  hist is the sequence of calls with their outcomes,    *)
(* sresult the outcome of the last one, and sdata the bytes the successful *)
(* writes were given, in call order; the caller writes the bytes 1, 2, 3,  *)
(* ... so byte i of sdata is i.                                            *)
(***************************************************************************)
Payload(n) == [i \in 1..n |-> Len(sdata) + i]

Called(call) == hist' = Append(hist, [call |-> call, res |-> sresult'])

SegInit ==
    /\ \E max_size \in 1..MaxSegSize : sfile = SegmentedFile("a+b", max_size, <<>>)
    /\ sresult = NoRaw
    /\ sdata = <<>>
    /\ file = MonolithicFile("a+b", <<>>)
    /\ index = InMemoryIndex
    /\ result = NoOutcome
    /\ sindex = InMemoryIndex
    /\ hist = <<>>

(* with f: ... entered *)
SEnter ==
    /\ Len(hist) < MaxRawOps
    /\ \E r \in {SegEnter(sfile)} :
           /\ sfile' = r.f
           /\ sresult' = Raw(r)
    /\ Called(Call("enter", 0, 0))
    /\ UNCHANGED <<engvars, sindex, sdata>>

(* the scope is left *)
SExit ==
    /\ Len(hist) < MaxRawOps
    /\ sfile' = SegClose(sfile)
    /\ sresult' = NoRaw
    /\ Called(Call("exit", 0, 0))
    /\ UNCHANGED <<engvars, sindex, sdata>>

SWrite(n) ==
    /\ Len(hist) < MaxRawOps
    /\ ~sfile.h.ra
    /\ \E r \in {SegWrite(sfile, Payload(n))} :
           /\ sfile' = r.f
           /\ sresult' = Raw(r)
           /\ sdata' = IF r.err = "" THEN sdata \o Payload(n) ELSE sdata
    /\ Called(Call("write", n, 0))
    /\ UNCHANGED <<engvars, sindex>>

SRead(size) ==
    /\ Len(hist) < MaxRawOps
    /\ \E r \in {SegRead(sfile, size)} :
           /\ sfile' = r.f
           /\ sresult' = Raw(r)
    /\ Called(Call("read", size, 0))
    /\ UNCHANGED <<engvars, sindex, sdata>>

SSeek(offset, whence) ==
    /\ Len(hist) < MaxRawOps
    /\ \E r \in {SegSeek(sfile, offset, whence)} :
           /\ sfile' = r.f
           /\ sresult' = Raw(r)
    /\ Called(Call("seek", offset, whence))
    /\ UNCHANGED <<engvars, sindex, sdata>>

STell ==
    /\ Len(hist) < MaxRawOps
    /\ \E r \in {SegTell(sfile)} :
           /\ sfile' = r.f
           /\ sresult' = Raw(r)
    /\ Called(Call("tell", 0, 0))
    /\ UNCHANGED <<engvars, sindex, sdata>>

SegNext ==
    \/ SEnter
    \/ SExit
    \/ \E n \in {1, MaxData} : SWrite(n)
    \/ \E size \in {1, MaxData} : SRead(size)
    \/ \E offset \in {0, 1} : SSeek(offset, SEEK_SET)
    \/ STell

SpecSeg == SegInit /\ [][SegNext]_vars

(***************************************************************************)
(* SpecEq: the same set/get/delete calls are issued to two engines built   *)
(* over empty tablespaces in mode "a+b", one over a MonolithicFile (file,  *)
(* index, result) and one over a SegmentedFile (sfile, sindex, sresult).   *)
(***************************************************************************)
(* a cap that splits every header, the cap a header fills, and the cap the *)
(* largest record fills                                                    *)
SegSizes == {HeaderSize \div 2, HeaderSize, HeaderSize + MaxKeyLen + MaxValLen}

EqInit ==
    /\ \E c \in {Construct(MonolithicFile("a+b", <<>>), InMemoryIndex)} :
           /\ file = c.f
           /\ index = c.index
           /\ result = Outcome(c)
    /\ \E max_size \in SegSizes :
           \E c \in {Construct(SegmentedFile("a+b", max_size, <<>>), InMemoryIndex)} :
               /\ sfile = c.f
               /\ sindex = c.index
               /\ sresult = Outcome(c)
    /\ sdata = <<>>
    /\ hist = <<>>

EqSet(k, v) ==
    /\ Len(hist) < MaxEqOps
    /\ \E r \in {set(file, index, k, v)} :
           /\ file' = r.f
           /\ index' = r.index
           /\ result' = Outcome(r)
    /\ \E r \in {set(sfile, sindex, k, v)} :
           /\ sfile' = r.f
           /\ sindex' = r.index
           /\ sresult' = Outcome(r)
    /\ hist' = Append(hist, [op |-> "set", key |-> k, value |-> v])
    /\ UNCHANGED sdata

EqGet(k) ==
    /\ Len(hist) < MaxEqOps
    /\ \E r \in {get(file, index, k)} :
           /\ file' = r.f
           /\ index' = r.index
           /\ result' = Outcome(r)
    /\ \E r \in {get(sfile, sindex, k)} :
           /\ sfile' = r.f
           /\ sindex' = r.index
           /\ sresult' = Outcome(r)
    /\ hist' = Append(hist, [op |-> "get", key |-> k, value |-> <<>>])
    /\ UNCHANGED sdata

EqDelete(k) ==
    /\ Len(hist) < MaxEqOps
    /\ \E r \in {delete(file, index, k)} :
           /\ file' = r.f
           /\ index' = r.index
           /\ result' = Outcome(r)
    /\ \E r \in {delete(sfile, sindex, k)} :
           /\ sfile' = r.f
           /\ sindex' = r.index
           /\ sresult' = Outcome(r)
    /\ hist' = Append(hist, [op |-> "delete", key |-> k, value |-> <<>>])
    /\ UNCHANGED sdata

EqNext ==
    \/ \E k \in Keys, v \in Values : EqSet(k, v)
    \/ \E k \in Keys : EqGet(k)
    \/ \E k \in Keys : EqDelete(k)

SpecEq == EqInit /\ [][EqNext]_vars

(***************************************************************************)
(* SpecRec: one caller holds a MonolithicFile object, opened in one of the *)
(* modes that read and write, and an index object, and builds an engine    *)
(* over them in a fresh directory.  Besides set, get and delete, a foreign *)
(* writer may append a damaged record to the log file (what a crash in the *)
(* middle of a write leaves), a further engine may be constructed over the *)
(* same file and index objects (Attach), and an engine may be constructed  *)
(* over the same file object and a fresh index object (Recover).  A failed *)
(* construction is recorded in hist as "attach_failed" or                  *)
(* "recover_failed"; index is then the index object as the failed          *)
(* constructor left it.                                                    *)
(***************************************************************************)
RecModes == {"a+b", "r+b", "w+b"}
RecKeys == {<<>>, <<1>>}
RecValues == {<<>>, <<2>>}

(* a partial header, a header whose payload is cut short, and a header     *)
(* whose operation byte is neither SET nor DELETE                          *)
Tails == {<<0, 1>>, HeaderToBytes(SET, 1, 1) \o <<1>>, <<2>> \o Zeros(HeaderSize - 1)}

RecInit ==
    /\ \E mode \in RecModes :
           \E c \in {Construct(MonolithicFile(mode, <<>>), InMemoryIndex)} :
               /\ file = c.f
               /\ index = c.index
               /\ result = Outcome(c)
    /\ sfile = SegmentedFile("a+b", 1, <<>>)
    /\ sindex = InMemoryIndex
    /\ sresult = NoOutcome
    /\ sdata = <<>>
    /\ hist = <<>>

(* an engine exists over file and index: the last construction over a      *)
(* fresh index, if any, succeeded or a later construction did              *)
HasEngine ==
    \A i \in 1..Len(hist) :
        hist[i].op = "recover_failed"
            => \E j \in (i + 1)..Len(hist) : hist[j].op \in {"attach", "recover"}

RecSet(k, v) == HasEngine /\ Set(k, v)

RecGet(k) == HasEngine /\ Get(k)

RecDelete(k) == HasEngine /\ Delete(k)

(* open(path, "ab").write(tail) by a foreign writer *)
Crash(tail) ==
    /\ Len(hist) < MaxOps
    /\ file' = [file EXCEPT !.files = PutFile(file.files, 0,
                                              (IF 0 \in DOMAIN file.files
                                               THEN file.files[0] ELSE <<>>) \o tail)]
    /\ result' = NoOutcome
    /\ hist' = Append(hist, [op |-> "crash", key |-> <<>>, value |-> tail])
    /\ UNCHANGED <<index, segvars>>

(* AppendOnlyLogStorage(file, index) over the objects already in use *)
Attach ==
    /\ Len(hist) < MaxOps
    /\ \E c \in {Construct(file, index)} :
           /\ file' = c.f
           /\ index' = c.index
           /\ result' = Outcome(c)
           /\ hist' = Append(hist, [op |-> IF c.err = "" THEN "attach" ELSE "attach_failed",
                                    key |-> <<>>, value |-> <<>>])
    /\ UNCHANGED segvars

(* AppendOnlyLogStorage(file, InMemoryIndex()) over the file object in use *)
Recover ==
    /\ Len(hist) < MaxOps
    /\ \E c \in {Construct(file, InMemoryIndex)} :
           /\ file' = c.f
           /\ index' = c.index
           /\ result' = Outcome(c)
           /\ hist' = Append(hist, [op |-> IF c.err = "" THEN "recover" ELSE "recover_failed",
                                    key |-> <<>>, value |-> <<>>])
    /\ UNCHANGED segvars

RecNext ==
    \/ \E k \in RecKeys, v \in RecValues : RecSet(k, v)
    \/ \E k \in RecKeys : RecGet(k)
    \/ \E k \in RecKeys : RecDelete(k)
    \/ \E tail \in Tails : Crash(tail)
    \/ Attach
    \/ Recover

SpecRec == RecInit /\ [][RecNext]_vars

(***************************************************************************)
(* SpecLog: the two engines of SpecEq, driven with the empty and a one-    *)
(* byte key and the empty and a one-byte value.                            *)
(***************************************************************************)
LogNext ==
    \/ \E k \in RecKeys, v \in RecValues : EqSet(k, v)
    \/ \E k \in RecKeys : EqGet(k)
    \/ \E k \in RecKeys : EqDelete(k)

SpecLog == EqInit /\ [][LogNext]_vars

(***************************************************************************)
(* SpecFault: the two engines of SpecEq, with calls of set and delete      *)
(* during which the device fails: it accepts `at` more write calls and     *)
(* raises OSError on the next.  A record is written with two calls, the    *)
(* header and the payload, so at = 0 fails the header and at = 1 the       *)
(* payload.  hist records such a call as "set_fails" or "delete_fails".    *)
(***************************************************************************)
MaxFaultOps == 3

FailAt == {0, 1}

FaultValues == {<<2>>}

(* f on a device that fails after `at` more write calls *)
Failing(f, at) == [x \in DOMAIN f \cup {"budget"} |-> IF x = "budget" THEN at ELSE f[x]]

(* the device works again *)
Repaired(f) == [x \in DOMAIN f \ {"budget"} |-> f[x]]

FaultSet(k, v) ==
    /\ Len(hist) < MaxFaultOps
    /\ EqSet(k, v)

FaultDelete(k) ==
    /\ Len(hist) < MaxFaultOps
    /\ EqDelete(k)

SetFails(k, v, at) ==
    /\ Len(hist) < MaxFaultOps
    /\ \E r \in {set(Failing(file, at), index, k, v)} :
           /\ file' = Repaired(r.f)
           /\ index' = r.index
           /\ result' = Outcome(r)
    /\ \E r \in {set(Failing(sfile, at), sindex, k, v)} :
           /\ sfile' = Repaired(r.f)
           /\ sindex' = r.index
           /\ sresult' = Outcome(r)
    /\ hist' = Append(hist, [op |-> "set_fails", key |-> k, value |-> v, at |-> at])
    /\ UNCHANGED sdata

DeleteFails(k, at) ==
    /\ Len(hist) < MaxFaultOps
    /\ \E r \in {delete(Failing(file, at), index, k)} :
           /\ file' = Repaired(r.f)
           /\ index' = r.index
           /\ result' = Outcome(r)
    /\ \E r \in {delete(Failing(sfile, at), sindex, k)} :
           /\ sfile' = Repaired(r.f)
           /\ sindex' = r.index
           /\ sresult' = Outcome(r)
    /\ hist' = Append(hist, [op |-> "delete_fails", key |-> k, value |-> <<>>, at |-> at])
    /\ UNCHANGED sdata

FaultNext ==
    \/ \E k \in RecKeys, v \in RecValues : FaultSet(k, v)
    \/ \E k \in RecKeys : FaultDelete(k)
    \/ \E k \in RecKeys, v \in FaultValues, at \in FailAt : SetFails(k, v, at)
    \/ \E k \in RecKeys, at \in FailAt : DeleteFails(k, at)

SpecFault == EqInit /\ [][FaultNext]_vars

(***************************************************************************)
(* SpecScope: two engines, one over each backend, in a mode that creates   *)
(* the log; between the calls of set, get and delete the caller may enter  *)
(* the scope of the backends itself (CallerOpens), and a further engine    *)
(* may be constructed over the same backend and index objects (Reattach).  *)
(***************************************************************************)
MaxScopeOps == 3

ScopeModes == {"a+b", "w+b"}

ScopeInit ==
    /\ \E mode \in ScopeModes :
           /\ \E c \in {Construct(MonolithicFile(mode, <<>>), InMemoryIndex)} :
                  /\ file = c.f
                  /\ index = c.index
                  /\ result = Outcome(c)
           /\ \E max_size \in SegSizes :
                  \E c \in {Construct(SegmentedFile(mode, max_size, <<>>), InMemoryIndex)} :
                      /\ sfile = c.f
                      /\ sindex = c.index
                      /\ sresult = Outcome(c)
    /\ sdata = <<>>
    /\ hist = <<>>

(* file.__enter__() by the caller, outside any engine call *)
CallerOpens ==
    /\ Len(hist) < MaxScopeOps
    /\ \E r \in {FEnter(file)} : file' = r.f
    /\ \E r \in {FEnter(sfile)} : sfile' = r.f
    /\ result' = NoOutcome
    /\ sresult' = NoOutcome
    /\ hist' = Append(hist, [op |-> "open", key |-> <<>>, value |-> <<>>])
    /\ UNCHANGED <<index, sindex, sdata>>

(* AppendOnlyLogStorage(file, index) over the objects already in use *)
Reattach ==
    /\ Len(hist) < MaxScopeOps
    /\ \E c \in {Construct(file, index)} :
           /\ file' = c.f
           /\ index' = c.index
           /\ result' = Outcome(c)
    /\ \E c \in {Construct(sfile, sindex)} :
           /\ sfile' = c.f
           /\ sindex' = c.index
           /\ sresult' = Outcome(c)
    /\ hist' = Append(hist, [op |-> "attach", key |-> <<>>, value |-> <<>>])
    /\ UNCHANGED sdata

ScopeSet(k, v) ==
    /\ Len(hist) < MaxScopeOps
    /\ EqSet(k, v)

ScopeGet(k) ==
    /\ Len(hist) < MaxScopeOps
    /\ EqGet(k)

ScopeDelete(k) ==
    /\ Len(hist) < MaxScopeOps
    /\ EqDelete(k)

ScopeNext ==
    \/ CallerOpens
    \/ Reattach
    \/ \E k \in RecKeys, v \in RecValues : ScopeSet(k, v)
    \/ \E k \in RecKeys : ScopeGet(k)
    \/ \E k \in RecKeys : ScopeDelete(k)

SpecScope == ScopeInit /\ [][ScopeNext]_vars

(***************************************************************************)
(* SpecCodec: one record is written to a MonolithicFile with to_stream at  *)
(* the position the stream is at after the scoped open, the stream is      *)
(* moved back to the position the record starts at, and from_stream        *)
(* decodes there.  The file holds Prefix bytes before the open.  hist is   *)
(* the record given, then the outcome of each step; result is the outcome  *)
(* of the last step.                                                       *)
(***************************************************************************)
(* payload lengths around 0 and around the carry into the second byte of   *)
(* a size field                                                            *)
CodecLens == {0, 1, 2} \cup (MaxCodecLen - 2)..MaxCodecLen

CodecKey(n) == [i \in 1..n |-> i % 256]

CodecValue(n) == [i \in 1..n |-> (7 * i + 3) % 256]

(* SET records with any key and value, DELETE records with an empty value *)
CodecRecords ==
    {[op |-> "record", operation |-> SET, key |-> CodecKey(k), value |-> CodecValue(v)] :
         k \in CodecLens, v \in CodecLens}
    \cup {[op |-> "record", operation |-> DELETE, key |-> CodecKey(k), value |-> <<>>] :
              k \in CodecLens}

Prefixes == {<<>>, <<9>>, [i \in 1..HeaderSize |-> 9]}

CodecInit ==
    /\ \E mode \in RecModes, prefix \in Prefixes :
           file = FEnter(MonolithicFile(mode, 0 :> prefix)).f
    /\ \E record \in CodecRecords : hist = <<record>>
    /\ index = InMemoryIndex
    /\ result = NoRaw
    /\ sfile = SegmentedFile("a+b", 1, <<>>)
    /\ sindex = InMemoryIndex
    /\ sresult = NoOutcome
    /\ sdata = <<>>

(* offset = stream.tell(); record.to_stream(stream) *)
Encode ==
    /\ Len(hist) = 1
    /\ \E w \in {_append_record(file, hist[1].operation, hist[1].key, hist[1].value)} :
           /\ file' = w.f
           /\ result' = Raw(w)
    /\ hist' = Append(hist, [op |-> "to_stream", res |-> result'])
    /\ UNCHANGED <<index, segvars>>

(* stream.seek(offset), offset the position the record starts at *)
Rewind ==
    /\ Len(hist) = 2
    /\ hist[2].res.err = ""
    /\ \E s \in {FSeek(file, hist[2].res.n, SEEK_SET)} :
           /\ file' = s.f
           /\ result' = Raw(s)
    /\ hist' = Append(hist, [op |-> "seek", res |-> result'])
    /\ UNCHANGED <<index, segvars>>

(* AppendOnlyLogRecord.from_stream(stream) *)
Decode ==
    /\ Len(hist) = 3
    /\ hist[3].res.err = ""
    /\ \E r \in {from_stream(file)} :
           /\ file' = r.f
           /\ result' = [err |-> r.err, eof |-> r.eof, operation |-> r.operation,
                         key |-> r.key, value |-> r.value]
    /\ hist' = Append(hist, [op |-> "from_stream", res |-> result'])
    /\ UNCHANGED <<index, segvars>>

CodecNext ==
    \/ Encode
    \/ Rewind
    \/ Decode

SpecCodec == CodecInit /\ [][CodecNext]_vars

(***************************************************************************)
(* SpecDec: a log is on disk before the stream is opened: nothing or one   *)
(* whole record, followed by one of DecTails.  It is held by a             *)
(* MonolithicFile or, cut into segment files of max_size bytes, by a       *)
(* SegmentedFile.  The stream is opened in a mode that reads, then moved   *)
(* with seek and decoded with from_stream in any order.  hist is the       *)
(* sequence of calls, each with the position it was made at and its        *)
(* outcome; result is the outcome of the last one.                         *)
(***************************************************************************)
MaxDecOps == 3

DecModes == {"rb", "r+b", "a+b"}

WholeRecord == HeaderToBytes(SET, 1, 1) \o <<1, 2>>

(* nothing; a whole tombstone; headers cut after 2, 17 and 23 bytes; a     *)
(* payload cut short, with a SET and with a DELETE header; a payload       *)
(* missing altogether; an operation byte that is neither SET nor DELETE;   *)
(* a key size no file can hold                                             *)
DecTails ==
    {<<>>,
     HeaderToBytes(DELETE, 1, 0) \o <<1>>,
     <<0, 1>>,
     Zeros(17),
     Zeros(HeaderSize - 1),
     HeaderToBytes(SET, 1, 1) \o <<1>>,
     HeaderToBytes(DELETE, 2, 1) \o <<1, 1>>,
     HeaderToBytes(SET, 0, 1),
     <<2>> \o Zeros(HeaderSize - 1),
     <<0>> \o Zeros(7) \o [i \in 1..8 |-> 255] \o Zeros(8)}

(* the files of a segmented log that holds bytes in segments of cap bytes  *)
DecSplit(bytes, cap) ==
    [s \in 0..(Max(1, (Len(bytes) + cap - 1) \div cap) - 1) |->
        Slice(bytes, s * cap, (s + 1) * cap)]

(* a cap that cuts every header, a cap that cuts the payload of the first  *)
(* record, and the cap the first record fills                              *)
DecCaps == {HeaderSize \div 2, HeaderSize + 1, Len(WholeRecord)}

DecBackends(bytes) ==
    {MonolithicFile(mode, 0 :> bytes) : mode \in DecModes}
    \cup {SegmentedFile(mode, cap, DecSplit(bytes, cap)) :
              mode \in DecModes, cap \in DecCaps}

DecOffsets == {0, 1, Len(WholeRecord), Len(WholeRecord) + HeaderSize + 1}

DecResult(r) ==
    [err |-> r.err, eof |-> r.eof, offset |-> r.offset,
     operation |-> r.operation, key |-> r.key, value |-> r.value]

DecInit ==
    /\ \E head \in {<<>>, WholeRecord}, tail \in DecTails :
           \E f \in DecBackends(head \o tail) : file = FEnter(f).f
    /\ index = InMemoryIndex
    /\ result = DecResult(Rec(file, "", FALSE, 0, 0, <<>>, <<>>))
    /\ sfile = SegmentedFile("a+b", 1, <<>>)
    /\ sindex = InMemoryIndex
    /\ sresult = NoOutcome
    /\ sdata = <<>>
    /\ hist = <<>>

(* AppendOnlyLogRecord.from_stream(stream) *)
DecFrom ==
    /\ Len(hist) < MaxDecOps
    /\ \E r \in {from_stream(file)} :
           /\ file' = r.f
           /\ result' = DecResult(r)
    /\ hist' = Append(hist, [op |-> "from_stream", at |-> FTell(file).n, res |-> result'])
    /\ UNCHANGED <<index, segvars>>

(* stream.seek(offset) *)
DecSeek(offset) ==
    /\ Len(hist) < MaxDecOps
    /\ \E s \in {FSeek(file, offset, SEEK_SET)} :
           /\ file' = s.f
           /\ result' = DecResult(Rec(s.f, s.err, FALSE, s.n, 0, <<>>, <<>>))
    /\ hist' = Append(hist, [op |-> "seek", at |-> FTell(file).n, res |-> result'])
    /\ UNCHANGED <<index, segvars>>

DecNext ==
    \/ DecFrom
    \/ \E offset \in DecOffsets : DecSeek(offset)

SpecDec == DecInit /\ [][DecNext]_vars

(***************************************************************************)
(* SpecIdx: one caller drives an InMemoryIndex, empty at first, with set,  *)
(* delete, has and get in any order.  The index stores and returns offsets *)
(* without computing on them; here an offset is written as its digits in   *)
(* base 2^16, least significant first, so that 2^32 is <<0, 0, 1>>.  hist  *)
(* is the sequence of calls and result the outcome of the last one.        *)
(***************************************************************************)
MaxIdxOps == 3

(* the empty key, a null byte, and bytes above the ASCII range *)
IdxKeys == {<<>>, <<0>>, <<255, 254>>}

(* 0, 1 and 2^32 *)
IdxOffsets == {<<0>>, <<1>>, <<0, 0, 1>>}

IdxCall(op, key, offset) == [op |-> op, key |-> key, offset |-> offset]

IdxResult(err, key, offset, has) == [err |-> err, key |-> key, offset |-> offset, has |-> has]

IdxInit ==
    /\ index = InMemoryIndex
    /\ result = IdxResult("", <<>>, None, FALSE)
    /\ file = MonolithicFile("a+b", <<>>)
    /\ sfile = SegmentedFile("a+b", 1, <<>>)
    /\ sindex = InMemoryIndex
    /\ sresult = NoOutcome
    /\ sdata = <<>>
    /\ hist = <<>>

IdxSet(key, offset) ==
    /\ Len(hist) < MaxIdxOps
    /\ index' = IndexSet(index, key, offset)
    /\ result' = IdxResult("", <<>>, None, FALSE)
    /\ hist' = Append(hist, IdxCall("set", key, offset))
    /\ UNCHANGED <<file, segvars>>

IdxDelete(key) ==
    /\ Len(hist) < MaxIdxOps
    /\ index' = IndexDelete(index, key)
    /\ result' = IdxResult("", <<>>, None, FALSE)
    /\ hist' = Append(hist, IdxCall("delete", key, None))
    /\ UNCHANGED <<file, segvars>>

IdxHas(key) ==
    /\ Len(hist) < MaxIdxOps
    /\ result' = IdxResult("", <<>>, None, IndexHas(index, key))
    /\ hist' = Append(hist, IdxCall("has", key, None))
    /\ UNCHANGED <<index, file, segvars>>

IdxGet(key) ==
    /\ Len(hist) < MaxIdxOps
    /\ \E r \in {IndexGet(index, key)} : result' = IdxResult(r.err, r.key, r.offset, FALSE)
    /\ hist' = Append(hist, IdxCall("get", key, None))
    /\ UNCHANGED <<index, file, segvars>>

IdxNext ==
    \/ \E key \in IdxKeys, offset \in IdxOffsets : IdxSet(key, offset)
    \/ \E key \in IdxKeys : IdxDelete(key)
    \/ \E key \in IdxKeys : IdxHas(key)
    \/ \E key \in IdxKeys : IdxGet(key)

SpecIdx == IdxInit /\ [][IdxNext]_vars

(***************************************************************************)
(* SpecIO: one caller drives a MonolithicFile (file) and a SegmentedFile   *)
(* (sfile) with the same calls: scoped open, close, write, read, seek and  *)
(* tell in any order.  Both are constructed in the same mode, any of the   *)
(* six, over tablespaces that hold the same bytes: nothing at all, or      *)
(* IoBytes, cut into segment files of IoCap bytes for the SegmentedFile.   *)
(* result and sresult are the outcomes of the last call on each, hist      *)
(* holds the last call only, with the positions it was made at and the     *)
(* number of calls made so far, at most MaxIoOps, and sdata the bytes the  *)
(* caller has passed to write so far.                                      *)
(***************************************************************************)
MaxIoOps == 5

IoBytes == <<1, 2, 3, 4, 5>>

IoCap == 2

IoWrites == {0, 1, 3}

IoReads == {-1, 0, 1, 4}

IoSeeks ==
    {<<0, SEEK_SET>>, <<1, SEEK_SET>>, <<3, SEEK_SET>>, <<7, SEEK_SET>>, <<-1, SEEK_SET>>,
     <<-1, SEEK_CUR>>, <<0, SEEK_END>>, <<-1, SEEK_END>>, <<-9, SEEK_END>>}

IoPayload(n) == [i \in 1..n |-> 10 + Len(sdata) + i]

(* tell() on a backend, -1 when it is not open *)
Position(f) == IF f.h.open THEN FTell(f).n ELSE -1

IoCalls == IF hist = <<>> THEN 0 ELSE hist[1].n

IoCalled(call) ==
    /\ IoCalls < MaxIoOps
    /\ hist' = <<[call |-> call, at |-> Position(file), sat |-> Position(sfile),
                  n |-> IoCalls + 1]>>

IoInit ==
    /\ \E mode \in Modes :
           \/ /\ file = MonolithicFile(mode, <<>>)
              /\ sfile = SegmentedFile(mode, IoCap, <<>>)
           \/ /\ file = MonolithicFile(mode, 0 :> IoBytes)
              /\ sfile = SegmentedFile(mode, IoCap, DecSplit(IoBytes, IoCap))
    /\ result = NoRaw
    /\ sresult = NoRaw
    /\ sdata = <<>>
    /\ index = InMemoryIndex
    /\ sindex = InMemoryIndex
    /\ hist = <<>>

(* with f: ... entered *)
IoEnter ==
    /\ IoCalled(Call("enter", 0, 0))
    /\ \E r \in {MonoEnter(file)} : file' = r.f /\ result' = Raw(r)
    /\ \E r \in {SegEnter(sfile)} : sfile' = r.f /\ sresult' = Raw(r)
    /\ UNCHANGED <<index, sindex, sdata>>

(* f.close(), which is also what leaving the scope does *)
IoClose ==
    /\ IoCalled(Call("close", 0, 0))
    /\ file' = MonoClose(file) /\ result' = NoRaw
    /\ sfile' = SegClose(sfile) /\ sresult' = NoRaw
    /\ UNCHANGED <<index, sindex, sdata>>

IoWrite(n) ==
    /\ IoCalled(Call("write", n, 0))
    /\ ~file.h.ra /\ ~sfile.h.ra
    /\ \E r \in {MonoWrite(file, IoPayload(n))} : file' = r.f /\ result' = Raw(r)
    /\ \E r \in {SegWrite(sfile, IoPayload(n))} : sfile' = r.f /\ sresult' = Raw(r)
    /\ sdata' = sdata \o IoPayload(n)
    /\ UNCHANGED <<index, sindex>>

IoRead(size) ==
    /\ IoCalled(Call("read", size, 0))
    /\ \E r \in {MonoRead(file, size)} : file' = r.f /\ result' = Raw(r)
    /\ \E r \in {SegRead(sfile, size)} : sfile' = r.f /\ sresult' = Raw(r)
    /\ UNCHANGED <<index, sindex, sdata>>

IoSeek(offset, whence) ==
    /\ IoCalled(Call("seek", offset, whence))
    /\ \E r \in {MonoSeek(file, offset, whence)} : file' = r.f /\ result' = Raw(r)
    /\ \E r \in {SegSeek(sfile, offset, whence)} : sfile' = r.f /\ sresult' = Raw(r)
    /\ UNCHANGED <<index, sindex, sdata>>

IoTell ==
    /\ IoCalled(Call("tell", 0, 0))
    /\ \E r \in {MonoTell(file)} : file' = r.f /\ result' = Raw(r)
    /\ \E r \in {SegTell(sfile)} : sfile' = r.f /\ sresult' = Raw(r)
    /\ UNCHANGED <<index, sindex, sdata>>

IoNext ==
    \/ IoEnter
    \/ IoClose
    \/ \E n \in IoWrites : IoWrite(n)
    \/ \E size \in IoReads : IoRead(size)
    \/ \E s \in IoSeeks : IoSeek(s[1], s[2])
    \/ IoTell

SpecIO == IoInit /\ [][IoNext]_vars

(***************************************************************************)
(* SpecOpen: the two backends of SpecIO are opened, written and closed,    *)
(* and while they are closed a second object of each kind, constructed in  *)
(* mode "a+b" over the same tablespace, may be opened, append bytes and be *)
(* closed (Foreign).  The first objects are the ones the state holds: they *)
(* keep what they cached when they were last open.                         *)
(***************************************************************************)
ForeignWrites == {1, 3}

ForeignPayload(n) == [i \in 1..n |-> 100 + i]

(* with Other(tablespace, directory, "a+b") as g: g.write(data) *)
Appended(other, data) ==
    Bind(FEnter(other), LAMBDA e :
        IF e.err # "" THEN e.f.files
        ELSE Bind(FWrite(e.f, data), LAMBDA w : FExit(w.f).files))

Foreign(n) ==
    /\ IoCalled(Call("foreign", n, 0))
    /\ ~file.h.open /\ ~sfile.h.open
    /\ file' = [file EXCEPT
                   !.files = Appended(MonolithicFile("a+b", file.files), ForeignPayload(n))]
    /\ sfile' = [sfile EXCEPT
                    !.files = Appended(SegmentedFile("a+b", sfile.max_size, sfile.files),
                                       ForeignPayload(n))]
    /\ result' = NoRaw
    /\ sresult' = NoRaw
    /\ UNCHANGED <<index, sindex, sdata>>

OpenNext ==
    \/ IoEnter
    \/ IoClose
    \/ \E n \in IoWrites : IoWrite(n)
    \/ \E n \in ForeignWrites : Foreign(n)

SpecOpen == IoInit /\ [][OpenNext]_vars

(* what get(k) returns in the current state *)
GetNow(k) == Outcome(get(file, index, k))

Returned(v) == [err |-> "", value |-> v, key |-> <<>>, offset |-> 0]

KeyNotFound(k) == [err |-> "LogKeyNotFoundError", value |-> <<>>, key |-> k, offset |-> 0]

(* C1: right after set(k, v) returns, get(k) returns exactly v *)
RoundTrip ==
    (hist # <<>> /\ Last(hist).op = "set")
        => (result.err = "" /\ GetNow(Last(hist).key) = Returned(Last(hist).value))

RoundTripWitness ==
    /\ Len(hist) >= 2
    /\ Last(hist).op = "set"
    /\ Last(hist).key = <<>>
    /\ Last(hist).value = <<>>
    /\ GetNow(<<>>) = Returned(<<>>)

(***************************************************************************)
(* The records of a well-formed log, read straight from its bytes: the     *)
(* operation, the key, the value and the offset of the first header byte.  *)
(***************************************************************************)
RECURSIVE LogRecords(_, _)
LogRecords(bytes, offset) ==
    IF offset + HeaderSize > Len(bytes) THEN <<>>
    ELSE LET ks == bytes[offset + 9]
             vs == bytes[offset + 17]
         IN <<[operation |-> bytes[offset + 1],
               key |-> SubSeq(bytes, offset + HeaderSize + 1, offset + HeaderSize + ks),
               value |-> SubSeq(bytes, offset + HeaderSize + ks + 1, offset + HeaderSize + ks + vs),
               offset |-> offset]>>
            \o LogRecords(bytes, offset + HeaderSize + ks + vs)

(* the index a replay from offset 0 must produce: every key whose last    *)
(* record is a SET, at the offset of that record                          *)
LatestSets(records) ==
    LET last(k) == CHOOSE i \in 1..Len(records) :
                       /\ records[i].key = k
                       /\ \A j \in (i + 1)..Len(records) : records[j].key # k
        live == {k \in {records[i].key : i \in 1..Len(records)} :
                     records[last(k)].operation = SET}
    IN [k \in live |-> records[last(k)].offset]

(* the calls hist ends with *)
EndsWith(n) == Len(hist) >= n

Ago(n) == hist[Len(hist) - n]

(* C2: engine A set(k, v) and was dropped; engine B built over the same   *)
(* file with a fresh index returns v for k                                 *)
DurabilityAcrossInstances ==
    (EndsWith(2) /\ Ago(0).op = "restart" /\ Ago(1).op = "set")
        => GetNow(Ago(1).key) = Returned(Ago(1).value)

(* C3: after construction with an empty index over an existing log, the   *)
(* index holds exactly the keys whose last record is a SET, each at the   *)
(* start offset of that record                                             *)
StartupReplay ==
    (EndsWith(1) /\ Ago(0).op = "restart")
        => index = LatestSets(LogRecords(LogBytes(file), 0))

(* what the caller of an engine observes: the value returned or the kind   *)
(* of error raised                                                         *)
Observable(r) == [err |-> r.err, value |-> r.value]

(* C4: the same calls issued to an engine over a MonolithicFile and to an  *)
(* engine over a SegmentedFile, both in mode "a+b" over empty tablespaces, *)
(* give the same observable result at every call, whatever the cap         *)
BackendEquivalence == Observable(result) = Observable(sresult)

(* C5: once a SegmentedFile.write has completed, no segment file on disk   *)
(* is larger than max_size                                                 *)
SegmentCap ==
    (\E i \in 1..Len(hist) : hist[i].call.op = "write" /\ hist[i].res.err = "")
        => \A s \in DOMAIN sfile.files : Len(sfile.files[s]) <= sfile.max_size

(* C6: on a SegmentedFile in mode "a+b" over an empty tablespace, one      *)
(* write of N > 2 * max_size bytes returns N and leaves at least three     *)
(* segment files, and seek(0) followed by read(N) returns the bytes        *)
(* written                                                                 *)
SegmentedRollover ==
    (/\ Len(hist) = 4
     /\ hist[1].call = Call("enter", 0, 0)
     /\ hist[2].call.op = "write" /\ hist[2].call.arg > 2 * sfile.max_size
     /\ hist[3].call = Call("seek", 0, SEEK_SET)
     /\ hist[4].call = Call("read", hist[2].call.arg, 0))
        => (/\ hist[2].res.err = "" /\ hist[2].res.n = hist[2].call.arg
            /\ Cardinality(DOMAIN sfile.files) >= 3
            /\ hist[4].res.err = "" /\ hist[4].res.data = sdata)

(* C7: after set(k, v1), ..., set(k, vn) on one key, get(k) returns vn *)
LastWriteWins ==
    \A n \in 1..Len(hist) :
        (\A i \in 0..(n - 1) : Ago(i).op = "set" /\ Ago(i).key = Ago(0).key)
            => GetNow(Ago(0).key) = Returned(Ago(0).value)

LastWriteWinsWitness ==
    /\ EndsWith(3)
    /\ \A i \in 0..2 : Ago(i).op = "set" /\ Ago(i).key = <<1>>
    /\ Len(Ago(2).value) < Len(Ago(1).value)
    /\ Len(Ago(0).value) < Len(Ago(1).value)
    /\ GetNow(<<1>>) = Returned(Ago(0).value)

(* C8: after set(k, v); delete(k), get(k) fails with LogKeyNotFoundError  *)
(* carrying k and the index does not have k                                *)
Tombstone ==
    (EndsWith(2) /\ Ago(0).op = "delete" /\ Ago(1).op = "set" /\ Ago(0).key = Ago(1).key)
        => (GetNow(Ago(0).key) = KeyNotFound(Ago(0).key) /\ ~IndexHas(index, Ago(0).key))

TombstoneWitness ==
    /\ EndsWith(2)
    /\ Ago(0).op = "delete" /\ Ago(1).op = "set" /\ Ago(0).key = Ago(1).key
    /\ Len(LogRecords(LogBytes(file), 0)) >= 2
    /\ Last(LogRecords(LogBytes(file), 0)).operation = DELETE
    /\ GetNow(Ago(0).key) = KeyNotFound(Ago(0).key)

(* C9: after set(k, v1); delete(k); set(k, v2), get(k) returns v2 *)
Resurrection ==
    (/\ EndsWith(3)
     /\ Ago(0).op = "set" /\ Ago(1).op = "delete" /\ Ago(2).op = "set"
     /\ Ago(0).key = Ago(1).key /\ Ago(1).key = Ago(2).key)
        => GetNow(Ago(0).key) = Returned(Ago(0).value)

ResurrectionWitness ==
    /\ EndsWith(3)
    /\ Ago(0).op = "set" /\ Ago(1).op = "delete" /\ Ago(2).op = "set"
    /\ Ago(0).key = Ago(1).key /\ Ago(1).key = Ago(2).key
    /\ Ago(0).value # Ago(2).value
    /\ Len(LogRecords(LogBytes(file), 0)) = 3
    /\ GetNow(Ago(0).key) = Returned(Ago(0).value)

(* C10: delete(k) of a key absent from the index returns without error,   *)
(* leaves the log and the index as they are, and get(k) still fails with  *)
(* LogKeyNotFoundError                                                     *)
IdempotentDelete ==
    [][\A k \in Keys :
          (/\ hist' = Append(hist, [op |-> "delete", key |-> k, value |-> <<>>])
           /\ ~IndexHas(index, k))
              => /\ result'.err = ""
                 /\ file'.files = file.files
                 /\ index' = index
                 /\ Outcome(get(file', index', k)) = KeyNotFound(k)]_vars

IdempotentDeleteWitness ==
    /\ EndsWith(2)
    /\ Ago(0).op = "delete"
    /\ Ago(1).op = "set"
    /\ Ago(0).key # Ago(1).key
    /\ result.err = ""
    /\ Len(LogRecords(LogBytes(file), 0)) = 1
    /\ ~IndexHas(index, Ago(0).key)

(* C11: a set or a delete on key k1 leaves what get(k2) returns or raises  *)
(* unchanged for every other key k2                                        *)
Isolation ==
    [][(hist' # hist /\ Last(hist').op \in {"set", "delete"})
          => \A k2 \in Keys \ {Last(hist').key} :
                 Outcome(get(file', index', k2)) = Outcome(get(file, index, k2))]_vars

IsolationWitness ==
    /\ EndsWith(3)
    /\ Ago(2).op = "set" /\ Ago(2).key = <<1>> /\ Ago(2).value # <<>>
    /\ Ago(1).op = "set" /\ Ago(1).key = <<>>
    /\ Ago(0).op = "delete" /\ Ago(0).key = <<>>
    /\ GetNow(<<1>>) = Returned(Ago(2).value)

(* the abstract map: what the last set or delete of k among the calls made *)
(* leaves for k                                                            *)
AbstractGet(k) ==
    LET touches == {i \in 1..Len(hist) : hist[i].op \in {"set", "delete"} /\ hist[i].key = k}
    IN IF touches = {} THEN KeyNotFound(k)
       ELSE LET last == CHOOSE i \in touches : \A j \in touches : j <= i
            IN IF hist[last].op = "set" THEN Returned(hist[last].value) ELSE KeyNotFound(k)

(* C12: on one engine, after any interleaving of sets, deletes and gets    *)
(* over several keys, get(k) returns the value of the last set(k, .) when  *)
(* no delete(k) follows it and fails with LogKeyNotFoundError otherwise    *)
PerKeyStateMachine ==
    (\A i \in 1..Len(hist) : hist[i].op # "restart")
        => \A k \in Keys : GetNow(k) = AbstractGet(k)

PerKeyStateMachineWitness ==
    /\ EndsWith(3)
    /\ Ago(2).op = "set" /\ Ago(2).key = <<1>>
    /\ Ago(1).op = "set" /\ Ago(1).key = <<>>
    /\ Ago(0).op = "set" /\ Ago(0).key = <<1>> /\ Ago(0).value # Ago(2).value
    /\ GetNow(<<1>>) = Returned(Ago(0).value)
    /\ GetNow(<<>>) = Returned(Ago(1).value)

(* C13: with the file in mode "a+b", once a further engine has been        *)
(* constructed over the same file object and the same index object, a      *)
(* set(k, v) made through one engine is what get(k) returns through the    *)
(* other, whether the other was constructed before the set or after it     *)
SharedInstances ==
    /\ (/\ file.mode = "a+b" /\ EndsWith(2)
        /\ Ago(0).op = "set"
        /\ \E i \in 1..Len(hist) : hist[i].op = "attach")
           => GetNow(Ago(0).key) = Returned(Ago(0).value)
    /\ (/\ file.mode = "a+b" /\ EndsWith(2)
        /\ Ago(0).op \in {"attach", "attach_failed"} /\ Ago(1).op = "set")
           => (result.err = "" /\ GetNow(Ago(1).key) = Returned(Ago(1).value))

SharedInstancesWitness ==
    /\ file.mode = "a+b"
    /\ EndsWith(3)
    /\ Ago(2).op = "set"
    /\ Ago(1).op = "attach"
    /\ Ago(0).op = "set" /\ Ago(0).key # Ago(2).key /\ Ago(0).value # <<>>
    /\ GetNow(Ago(0).key) = Returned(Ago(0).value)
    /\ GetNow(Ago(2).key) = Returned(Ago(2).value)

ConstructOps == {"attach", "attach_failed", "recover", "recover_failed"}

(* the bytes from offset on are whole records, each with a SET or DELETE   *)
(* operation byte                                                          *)
RECURSIVE WellFormed(_, _)
WellFormed(bytes, offset) ==
    IF offset = Len(bytes) THEN TRUE
    ELSE IF offset + HeaderSize > Len(bytes) THEN FALSE
    ELSE LET size == Unpack64(SubSeq(bytes, offset + 9, offset + 16))
                     + Unpack64(SubSeq(bytes, offset + 17, offset + 24))
         IN /\ bytes[offset + 1] \in {SET, DELETE}
            /\ offset + HeaderSize + size <= Len(bytes)
            /\ WellFormed(bytes, offset + HeaderSize + size)

(* C14: constructing an engine over a log that holds a truncated header, a *)
(* truncated payload or an invalid operation byte fails with               *)
(* LogCorruptedError                                                       *)
CorruptionIsFatal ==
    [][(/\ hist' # hist
        /\ Last(hist').op \in ConstructOps
        /\ ~WellFormed(LogBytes(file), 0))
           => result'.err = "LogCorruptedError"]_vars

(* C15: when construction fails with LogCorruptedError, the index object   *)
(* the caller passed holds what it held before: nothing when it was fresh  *)
NoPartialIndex ==
    [][(hist' # hist /\ result'.err = "LogCorruptedError")
          => /\ Last(hist').op = "recover_failed" => index' = InMemoryIndex
             /\ Last(hist').op = "attach_failed" => index' = index]_vars

InvalidOffsetSelfHeals ==
    (hist # <<>> /\ Last(hist).op = "get" /\ result.err = "LogInvalidOffsetError")
        => (/\ ~IndexHas(index, Last(hist).key)
            /\ GetNow(Last(hist).key) = KeyNotFound(Last(hist).key))

(* C17: get(k) of a key the index does not have fails with                 *)
(* LogKeyNotFoundError carrying exactly k and leaves the log and the index *)
(* as they are                                                             *)
GetAbsent ==
    [][\A k \in Keys :
          (/\ hist' = Append(hist, [op |-> "get", key |-> k, value |-> <<>>])
           /\ ~IndexHas(index, k))
              => /\ result' = KeyNotFound(k)
                 /\ file'.files = file.files
                 /\ index' = index]_vars

GetAbsentWitness ==
    /\ EndsWith(3)
    /\ Ago(2).op = "set" /\ Ago(2).key = <<1>>
    /\ Ago(1).op = "delete" /\ Ago(1).key = <<1>>
    /\ Ago(0).op = "get" /\ Ago(0).key = <<1>>
    /\ result = KeyNotFound(<<1>>)
    /\ Len(LogRecords(LogBytes(file), 0)) = 2

(* the log grows by exactly n bytes at a successful set *)
SetGrowsBy(n) ==
    (hist' # hist /\ Last(hist').op = "set" /\ result'.err = "")
        => Len(LogBytes(file')) = Len(LogBytes(file)) + n

CodecRoundTrip ==
    /\ Len(hist) >= 2 => hist[2].res.err = ""
    /\ Len(hist) >= 3 => hist[3].res.err = ""
    /\ Len(hist) = 4
          => result = [err |-> "", eof |-> FALSE, operation |-> hist[1].operation,
                       key |-> hist[1].key, value |-> hist[1].value]

CodecRoundTripWitness ==
    /\ Len(hist) = 4
    /\ hist[1].operation = SET
    /\ Len(hist[1].key) = MaxCodecLen - 1
    /\ Len(hist[1].value) = MaxCodecLen
    /\ Len(LogBytes(file)) > HeaderSize + 2 * (MaxCodecLen - 1)
    /\ result.err = ""
    /\ result.key = hist[1].key
    /\ result.value = hist[1].value

(* the bytes of the log from offset on *)
Remaining(f, offset) == SubSeq(LogBytes(f), offset + 1, Len(LogBytes(f)))

(* bytes that do not begin with a whole record: a header cut short, an     *)
(* operation byte that is neither SET nor DELETE, or a payload shorter     *)
(* than key_size + value_size                                              *)
Damaged(rest) ==
    \/ Len(rest) < HeaderSize
    \/ rest[1] \notin {SET, DELETE}
    \/ Len(rest) - HeaderSize
           < Unpack64(SubSeq(rest, 9, 16)) + Unpack64(SubSeq(rest, 17, 24))

(* C21: from_stream on a stream at offset O returns None without error     *)
(* when no byte remains at O; when bytes remain but the header is cut      *)
(* short, the payload is shorter than key_size + value_size or the         *)
(* operation byte is not 0 or 1, it fails with LogCorruptedError whose     *)
(* offset is O                                                             *)
DecodeAtOffset ==
    [][(hist' # hist /\ Last(hist').op = "from_stream")
          => LET O == Last(hist').at
                 rest == Remaining(file, O)
             IN /\ O = FTell(file).n
                /\ rest = <<>> => (result'.err = "" /\ result'.eof)
                /\ (rest # <<>> /\ Damaged(rest))
                      => (result'.err = "LogCorruptedError" /\ result'.offset = O)]_vars

(* a whole record was decoded, then a payload cut short was met at the     *)
(* offset the first record ends at                                         *)
DecodeAtOffsetWitness ==
    /\ Len(hist) = 2
    /\ hist[1].op = "from_stream" /\ hist[1].at = 0 /\ hist[1].res.err = ""
    /\ hist[2].op = "from_stream" /\ hist[2].at = Len(WholeRecord)
    /\ Len(LogBytes(file)) = Len(WholeRecord) + HeaderSize + 1
    /\ result.err = "LogCorruptedError"
    /\ result.offset = Len(WholeRecord)

(* the finite map the set and delete calls made so far describe *)
AbstractIndex ==
    LET touches(k) == {i \in 1..Len(hist) : hist[i].op \in {"set", "delete"} /\ hist[i].key = k}
        last(k) == CHOOSE i \in touches(k) : \A j \in touches(k) : j <= i
        present == {k \in IdxKeys : touches(k) # {} /\ hist[last(k)].op = "set"}
    IN [k \in present |-> hist[last(k)].offset]

(* C22: after any sequence of calls the index is the finite map of the     *)
(* last set of each key no delete followed: has(k) is true and get(k)      *)
(* returns that offset, 0 and 2^32 included, and for any other key has(k)  *)
(* is false and get(k) raises InMemoryIndexKeyNotFoundError carrying k;    *)
(* delete never raises, and has and get leave the map as it is             *)
IndexIsFiniteMap ==
    /\ index = AbstractIndex
    /\ \A k \in IdxKeys :
           IF k \in DOMAIN AbstractIndex
           THEN /\ IndexHas(index, k)
                /\ IndexGet(index, k) = [err |-> "", key |-> <<>>, offset |-> AbstractIndex[k]]
           ELSE /\ ~IndexHas(index, k)
                /\ IndexGet(index, k)
                       = [err |-> "InMemoryIndexKeyNotFoundError", key |-> k, offset |-> None]
    /\ hist # <<>> =>
           /\ Last(hist).op \in {"set", "delete"} => result.err = ""
           /\ Last(hist).op = "has"
                 => result = IdxResult("", <<>>, None, Last(hist).key \in DOMAIN AbstractIndex)
           /\ Last(hist).op = "get"
                 => \E r \in {IndexGet(AbstractIndex, Last(hist).key)} :
                        result = IdxResult(r.err, r.key, r.offset, FALSE)

(* offset 0 is returned for one key while another, deleted when it was     *)
(* absent, is reported missing                                             *)
IndexIsFiniteMapWitness ==
    /\ Len(hist) = 3
    /\ hist[1] = IdxCall("set", <<>>, <<0>>)
    /\ hist[2] = IdxCall("delete", <<0>>, None)
    /\ hist[3] = IdxCall("get", <<>>, None)
    /\ result = IdxResult("", <<>>, <<0>>, FALSE)
    /\ ~IndexHas(index, <<0>>)

(* the last call of SpecIO *)
IoLast == hist[1].call

IoOps == {"read", "write", "seek", "tell"}

(* what a call on a SegmentedFile that is not open raises: the mode test   *)
(* of write and of read comes before the handle test                       *)
SegNotOpen(f, op) ==
    IF \/ op = "write" /\ f.mode = "rb"
       \/ op = "read" /\ f.mode = "wb"
    THEN "IOError" ELSE "RuntimeError"

ReentrantEnter ==
    [][(hist' # hist /\ hist'[1].call.op = "enter")
          => /\ file.h.open => (result'.err = "" /\ file' = file)
             /\ sfile.h.open => (sresult'.err = "" /\ sfile' = sfile)]_vars

(* in a w mode, with written bytes still in the handle and the position    *)
(* moved back, the scope was entered again                                 *)
ReentrantEnterWitness ==
    /\ hist # <<>> /\ IoLast.op = "enter"
    /\ hist[1].at = 1 /\ hist[1].sat = 1
    /\ file.mode = "w+b"
    /\ Len(sdata) = 3
    /\ Position(file) = 1 /\ Position(sfile) = 1
    /\ Len(LogBytes(file)) = 3
    /\ DOMAIN sfile.files = {0, 1}

(* the size of the byte stream of an open backend, bytes still held in the *)
(* handle included                                                         *)
EndOf(f) == Len(LogBytes([f EXCEPT !.files = PyFlush(f.files, f.h, f.mode).files]))

(* the position a seek asks for, before any clamping *)
Resolved(f, offset, whence) ==
    IF whence = SEEK_SET THEN offset
    ELSE IF whence = SEEK_CUR THEN Position(f) + offset
    ELSE EndOf(f) + offset

(* C25: on both backends a seek whose resolved position is negative        *)
(* returns 0 and a following tell() returns 0                              *)
SeekClampsNegative ==
    [][(hist' # hist /\ hist'[1].call.op = "seek")
          => /\ (file.h.open /\ Resolved(file, hist'[1].call.arg, hist'[1].call.whence) < 0)
                   => (result' = Raw(Res(file', "", 0, <<>>)) /\ Position(file') = 0)
             /\ (sfile.h.open /\ Resolved(sfile, hist'[1].call.arg, hist'[1].call.whence) < 0)
                   => (sresult' = Raw(Res(sfile', "", 0, <<>>)) /\ Position(sfile') = 0)]_vars

(* C26: on both backends write in mode "rb" and read in modes "wb" and     *)
(* "ab" fail and leave the files on disk, the position and the active      *)
(* segment as they were                                                    *)
ModeEnforcement ==
    [][(/\ hist' # hist
        /\ \/ hist'[1].call.op = "write" /\ file.mode = "rb"
           \/ hist'[1].call.op = "read" /\ file.mode \in {"wb", "ab"})
          => /\ file.h.open
                   => /\ result'.err # ""
                      /\ file'.files = file.files
                      /\ Position(file') = Position(file)
             /\ sfile.h.open
                   => /\ sresult'.err # ""
                      /\ sfile'.files = sfile.files
                      /\ Position(sfile') = Position(sfile)
                      /\ sfile'.cur = sfile.cur]_vars

(* C27: on an open SegmentedFile whose handle holds no unwritten bytes,    *)
(* read(N) at global position P returns the bytes [P, min(P + N, total))   *)
(* of the segments in ascending index order, and read(-1) the bytes from   *)
(* P to the end                                                            *)
CrossSegmentRead ==
    [][(/\ hist' # hist
        /\ hist'[1].call.op = "read"
        /\ sfile.h.open /\ Readable(sfile.mode) /\ sfile.h.pend = <<>>)
          => LET P == hist'[1].sat
                 N == hist'[1].call.arg
                 all == LogBytes(sfile)
             IN /\ sresult'.err = ""
                /\ sresult'.data = Slice(all, P, IF N = -1 THEN Len(all) ELSE P + N)]_vars

(* C30: whenever a SegmentedFile is open, one segment of its list is       *)
(* active, the cached base offset is the sum of the sizes on disk of the   *)
(* segments before it, and tell() is that sum plus the position of the     *)
(* handle                                                                  *)
GlobalPosition ==
    sfile.h.open
        => /\ 0 <= sfile.cur /\ sfile.cur < Len(sfile.segments)
           /\ sfile.h.seg = sfile.segments[sfile.cur + 1]
           /\ sfile.base = SumSizes(sfile.files, sfile.segments, sfile.cur)
           /\ SegTell(sfile).n
                  = SumSizes(sfile.files, sfile.segments, sfile.cur) + sfile.h.pos

(* after a write that rolled over into new segments and a seek back into a *)
(* segment in the middle, the position is inside that segment              *)
GlobalPositionWitness ==
    /\ hist # <<>> /\ IoLast.op = "seek" /\ IoLast.arg = 3
    /\ sfile.mode = "a+b"
    /\ Len(sdata) = 3
    /\ Len(sfile.segments) = 4
    /\ sfile.cur = 1
    /\ sfile.base = IoCap
    /\ sfile.h.pos = 1
    /\ SegTell(sfile).n = 3

(* the bytes of one record: header, key, value *)
RecordBytes(operation, key, value) ==
    HeaderToBytes(operation, Len(key), Len(value)) \o key \o value

(* the engine moved from log `before` to log `after` and index `idx` by a  *)
(* set(key, value): the record lies at the old end of the log and the      *)
(* index holds that offset                                                 *)
IndexedAtOldEnd(before, after, idx, key, value) ==
    /\ IndexHas(idx, key)
    /\ idx[key] = Len(before)
    /\ after = before \o RecordBytes(SET, key, value)

(* C28: set(key, value) stores in the index the offset O at which its      *)
(* record starts; O is the size of the log immediately before the call,    *)
(* and the record is appended at O.  Stated for both backends in mode a+b. *)
SetIndexesOldEnd ==
    [][(hist' # hist /\ Last(hist').op = "set") =>
          /\ result'.err = "" /\ sresult'.err = ""
          /\ IndexedAtOldEnd(LogBytes(file), LogBytes(file'), index',
                             Last(hist').key, Last(hist').value)
          /\ IndexedAtOldEnd(LogBytes(sfile), LogBytes(sfile'), sindex',
                             Last(hist').key, Last(hist').value)]_vars

(* a set of a key already set before: its record starts after two records, *)
(* in a later segment, and the index moved from offset 0 to that offset    *)
SetIndexesOldEndWitness ==
    /\ Len(hist) = 3
    /\ hist[1].op = "set" /\ hist[2].op = "set" /\ hist[3].op = "set"
    /\ hist[1].key = <<1>> /\ hist[2].key = <<>> /\ hist[3].key = <<1>>
    /\ index[<<1>>] = Len(RecordBytes(SET, <<1>>, hist[1].value))
                         + Len(RecordBytes(SET, <<>>, hist[2].value))
    /\ sindex[<<1>>] = index[<<1>>]
    /\ Len(sfile.segments) > 2

(* whether key is present after the first n calls of hist *)
PresentAfter(key, n) ==
    \E i \in 1..n :
        /\ hist[i].op = "set" /\ hist[i].key = key
        /\ \A j \in (i + 1)..n : ~(hist[j].op = "delete" /\ hist[j].key = key)

(* the log the first n calls of hist leave: one SET record per set, one    *)
(* DELETE record per delete of a key present at that time, nothing for a   *)
(* get or a delete of an absent key                                        *)
RECURSIVE ExpectedLog(_)
ExpectedLog(n) ==
    IF n = 0 THEN <<>>
    ELSE ExpectedLog(n - 1) \o
         (IF hist[n].op = "set" THEN RecordBytes(SET, hist[n].key, hist[n].value)
          ELSE IF hist[n].op = "delete" /\ PresentAfter(hist[n].key, n - 1)
               THEN RecordBytes(DELETE, hist[n].key, <<>>)
          ELSE <<>>)

(* C29: after any sequence of set, delete and get by one caller the log is *)
(* the concatenation, in issue order and without separators, of one SET    *)
(* record per set and one DELETE record per delete of a present key; every *)
(* call leaves the bytes already in the log as they are, and get appends   *)
(* nothing.  Stated for both backends in mode a+b.                         *)
AppendOnlyInIssueOrder ==
    /\ LogBytes(file) = ExpectedLog(Len(hist))
    /\ LogBytes(sfile) = ExpectedLog(Len(hist))

(* a delete of an absent key, a set, a get and a delete of the key set:    *)
(* the log holds the SET record and the tombstone, over several segments   *)
AppendOnlyInIssueOrderWitness ==
    /\ Len(hist) = 4
    /\ hist[1].op = "delete" /\ hist[2].op = "set"
    /\ hist[3].op = "get" /\ hist[4].op = "delete"
    /\ hist[1].key = <<1>> /\ hist[2].key = <<1>> /\ hist[2].value = <<2>>
    /\ hist[3].key = <<1>> /\ hist[4].key = <<1>>
    /\ LogBytes(sfile) = RecordBytes(SET, <<1>>, <<2>>) \o RecordBytes(DELETE, <<1>>, <<>>)
    /\ LogBytes(file) = LogBytes(sfile)
    /\ Len(sfile.segments) > 2

(* C31: a seek on an open SegmentedFile, no unwritten bytes in the handle, *)
(* to a target greater than the total size of the segments activates the   *)
(* last segment and positions the handle at that segment's size            *)
SeekPastEnd ==
    [][(/\ hist' # hist
        /\ hist'[1].call.op = "seek"
        /\ sfile.h.open /\ sfile.h.pend = <<>>
        /\ Resolved(sfile, hist'[1].call.arg, hist'[1].call.whence) > EndOf(sfile))
          => /\ sresult'.err = ""
             /\ sfile'.h.open
             /\ sfile'.cur = Len(sfile'.segments) - 1
             /\ sfile'.h.pos = FileSize(sfile'.files, sfile'.segments[sfile'.cur + 1])]_vars

(* C32: a scoped open of a closed SegmentedFile whose tablespace holds     *)
(* segments activates the last segment at total size when the mode has an  *)
(* a, and the first segment at position 0 in the r modes; the files stay   *)
(* as they are                                                             *)
InitialPosition ==
    [][(/\ hist' # hist
        /\ hist'[1].call.op = "enter"
        /\ ~sfile.h.open /\ DOMAIN sfile.files # {} /\ ~HasW(sfile.mode))
          => /\ sresult'.err = ""
             /\ sfile'.h.open
             /\ sfile'.files = sfile.files
             /\ sfile'.segments = SortedSeq(DOMAIN sfile.files)
             /\ IF HasA(sfile.mode)
                THEN /\ sfile'.cur = Len(sfile'.segments) - 1
                     /\ Position(sfile') = Len(LogBytes(sfile))
                ELSE /\ sfile'.cur = 0
                     /\ Position(sfile') = 0]_vars

(* in mode a+b the backend was opened, wrote, was closed, a second object  *)
(* appended, and the backend was opened again: it stands at the end of all *)
(* the bytes, in the last of five segments                                 *)
InitialPositionWitness ==
    /\ hist # <<>> /\ IoLast.op = "enter" /\ hist[1].n = 5
    /\ hist[1].sat = -1
    /\ sfile.mode = "a+b"
    /\ Len(sdata) = 3
    /\ Len(LogBytes(sfile)) = Len(IoBytes) + 3 + 1
    /\ sfile.cur = 4
    /\ Position(sfile) = Len(LogBytes(sfile))

(* C33: a scoped open of a closed SegmentedFile whose mode has a w deletes *)
(* every segment file of the tablespace, creates one empty segment and     *)
(* activates it at position 0: the tablespace is that one empty segment    *)
TruncatingOpen ==
    [][(/\ hist' # hist
        /\ hist'[1].call.op = "enter"
        /\ ~sfile.h.open /\ HasW(sfile.mode))
          => /\ sresult'.err = ""
             /\ sfile'.h.open
             /\ Len(sfile'.segments) = 1
             /\ DOMAIN sfile'.files = {sfile'.segments[1]}
             /\ LogBytes(sfile') = <<>>
             /\ sfile'.cur = 0
             /\ Position(sfile') = 0]_vars

(* the segment files of an open SegmentedFile with the bytes its handle    *)
(* still holds written out                                                 *)
Flushed(f) == PyFlush(f.files, f.h, f.mode).files

(* C34: a write on an open SegmentedFile in a mode that allows writing     *)
(* returns len(data); a write of no bytes creates no segment; and every    *)
(* segment a write creates receives at least one byte of that write, so a  *)
(* write that fills the active segment to exactly max_size creates none    *)
ExactFillRollover ==
    [][(/\ hist' # hist
        /\ hist'[1].call.op = "write"
        /\ sfile.h.open /\ Writable(sfile.mode))
          => /\ sresult'.err = ""
             /\ sresult'.n = hist'[1].call.arg
             /\ hist'[1].call.arg = 0 => sfile'.segments = sfile.segments
             /\ \A j \in 1..Len(sfile'.segments) :
                    j > Len(sfile.segments)
                        => FileSize(Flushed(sfile'), sfile'.segments[j]) >= 1]_vars

(* in mode a+b over segments of 2, 2 and 1 bytes, a write of one byte      *)
(* filled the last segment and a write of no bytes followed: there are     *)
(* still three segments and the handle stands at max_size                  *)
ExactFillRolloverWitness ==
    /\ hist # <<>> /\ IoLast.op = "write" /\ IoLast.arg = 0 /\ hist[1].n = 3
    /\ sfile.mode = "a+b"
    /\ Len(sdata) = 1
    /\ Len(sfile.segments) = 3
    /\ sfile.cur = 2
    /\ sfile.h.pos = sfile.max_size
    /\ FileSize(Flushed(sfile), 2) = sfile.max_size

(* C35: the segment list of an open SegmentedFile is strictly ascending    *)
(* and is what a reload of the tablespace sorted by index gives, so that   *)
(* closing and reopening reconstructs the same order and the same byte     *)
(* stream; and every segment file a call of the caller creates has the     *)
(* index after the largest existing one, or 0 when there is none           *)
SegmentOrdering ==
    [][hist' # hist
          => /\ sfile'.h.open
                   => /\ \A j \in 1..(Len(sfile'.segments) - 1) :
                             sfile'.segments[j] < sfile'.segments[j + 1]
                      /\ sfile'.segments = SortedSeq(DOMAIN sfile'.files)
             /\ hist'[1].call.op # "foreign"
                   => \A s \in DOMAIN sfile'.files \ DOMAIN sfile.files :
                          /\ \A t \in DOMAIN sfile.files : t < s
                          /\ s = 0 \/ s - 1 \in DOMAIN sfile'.files]_vars

(* every entry of idx points at the first header byte of a SET record of   *)
(* its key that no later record of that key follows, inside the log, and   *)
(* no two keys share an offset                                             *)
PointsAtLatestSets(bytes, idx) ==
    LET records == LogRecords(bytes, 0)
    IN /\ WellFormed(bytes, 0)
       /\ \A k \in DOMAIN idx :
              /\ idx[k] < Len(bytes)
              /\ \E i \in 1..Len(records) :
                     /\ records[i].offset = idx[k]
                     /\ records[i].operation = SET
                     /\ records[i].key = k
                     /\ \A j \in (i + 1)..Len(records) : records[j].key # k
       /\ \A k1, k2 \in DOMAIN idx : k1 # k2 => idx[k1] # idx[k2]

CorruptionErrors == {"LogInvalidOffsetError", "LogCorruptedError"}

(* C36: on an engine in mode a+b started over an empty log with an empty   *)
(* index, after every set, delete and get each index entry points at the   *)
(* latest SET record of its key, and no call fails with                    *)
(* LogInvalidOffsetError or LogCorruptedError; stated for the engine over  *)
(* each backend                                                            *)
IndexLogConsistency ==
    [][hist' # hist
          => /\ PointsAtLatestSets(LogBytes(file'), index')
             /\ PointsAtLatestSets(LogBytes(sfile'), sindex')
             /\ result'.err \notin CorruptionErrors
             /\ sresult'.err \notin CorruptionErrors]_vars

(* C37: at every point of a sequence of set and delete (and get) on an     *)
(* engine started over an empty log with an empty index, the index a       *)
(* replay of the log from offset 0 gives, SET records setting their key to *)
(* their start offset and DELETE records deleting it, is the live index    *)
ReplayEquivalence ==
    /\ index = LatestSets(LogRecords(LogBytes(file), 0))
    /\ sindex = LatestSets(LogRecords(LogBytes(sfile), 0))

(* two keys were set, one of them twice, and the other deleted: the index  *)
(* holds one key, at the offset of its second record, the third of four    *)
ReplayEquivalenceWitness ==
    /\ Len(hist) = 4
    /\ hist[1].op = "set" /\ hist[1].key = <<1>>
    /\ hist[2].op = "set" /\ hist[2].key = <<>>
    /\ hist[3].op = "set" /\ hist[3].key = <<1>>
    /\ hist[4].op = "delete" /\ hist[4].key = <<>>
    /\ DOMAIN index = {<<1>>}
    /\ index[<<1>>] = Len(RecordBytes(SET, <<1>>, hist[1].value))
                         + Len(RecordBytes(SET, <<>>, hist[2].value))
    /\ sindex = index
    /\ Len(LogRecords(LogBytes(sfile), 0)) = 4

(* the bytes of a record the device accepted before it failed *)
WrittenBefore(operation, key, value, at) ==
    IF at = 0 THEN <<>> ELSE HeaderToBytes(operation, Len(key), Len(value))

(* C38: when the device fails while set or delete appends its record, the  *)
(* error reaches the caller, the index is as it was before the call, and   *)
(* what was written before the failure stays at the end of the log         *)
FailedAppendKeepsIndex ==
    [][(/\ hist' # hist
        /\ \/ Last(hist').op = "set_fails"
           \/ Last(hist').op = "delete_fails" /\ IndexHas(index, Last(hist').key))
          => LET call == Last(hist')
                 left == WrittenBefore(IF call.op = "set_fails" THEN SET ELSE DELETE,
                                       call.key, call.value, call.at)
             IN /\ result'.err = "OSError" /\ sresult'.err = "OSError"
                /\ index' = index /\ sindex' = sindex
                /\ LogBytes(file') = LogBytes(file) \o left
                /\ LogBytes(sfile') = LogBytes(sfile) \o left]_vars

(* a key was set, a second set of it failed at the payload and a delete of *)
(* it failed at the header: the key is still indexed at offset 0, and the  *)
(* log holds the first record and the header of the second                 *)
FailedAppendKeepsIndexWitness ==
    /\ Len(hist) = 3
    /\ hist[1].op = "set" /\ hist[1].key = <<1>> /\ hist[1].value = <<>>
    /\ hist[2].op = "set_fails" /\ hist[2].key = <<1>> /\ hist[2].at = 1
    /\ hist[3].op = "delete_fails" /\ hist[3].key = <<1>> /\ hist[3].at = 0
    /\ result.err = "OSError" /\ sresult.err = "OSError"
    /\ index = (<<1>> :> 0) /\ sindex = (<<1>> :> 0)
    /\ LogBytes(file) = RecordBytes(SET, <<1>>, <<>>) \o HeaderToBytes(SET, 1, 1)
    /\ LogBytes(sfile) = LogBytes(file)

(* C39 as stated: after a construction, a get, a set or a delete of a      *)
(* present key the backend is closed, also when the caller had opened it   *)
ClosedAfterEveryCall ==
    [][hist' # hist
          => /\ (\/ Last(hist').op \in {"attach", "get", "set"}
                 \/ Last(hist').op = "delete" /\ IndexHas(index, Last(hist').key))
                    => ~file'.h.open
             /\ (\/ Last(hist').op \in {"attach", "get", "set"}
                 \/ Last(hist').op = "delete" /\ IndexHas(sindex, Last(hist').key))
                    => ~sfile'.h.open]_vars

(* C39, amended: after a construction, a set, or a get or a delete of a    *)
(* key the index holds, the backend is closed, also when the caller had    *)
(* opened it; a get or a delete of a key the index does not hold leaves    *)
(* the backend as it was                                                   *)
ClosedAfterScopedCall ==
    [][hist' # hist
          => /\ (\/ Last(hist').op \in {"attach", "set"}
                 \/ Last(hist').op \in {"get", "delete"} /\ IndexHas(index, Last(hist').key))
                    => ~file'.h.open
             /\ (\/ Last(hist').op \in {"attach", "set"}
                 \/ Last(hist').op \in {"get", "delete"} /\ IndexHas(sindex, Last(hist').key))
                    => ~sfile'.h.open
             /\ (Last(hist').op \in {"get", "delete"} /\ ~IndexHas(index, Last(hist').key))
                    => file' = file
             /\ (Last(hist').op \in {"get", "delete"} /\ ~IndexHas(sindex, Last(hist').key))
                    => sfile' = sfile]_vars

(* a key was set, the caller opened the backends, and a get of the key     *)
(* closed them                                                             *)
ClosedAfterScopedCallWitness ==
    /\ Len(hist) = 3
    /\ hist[1].op = "set" /\ hist[1].key = <<1>>
    /\ hist[2].op = "open"
    /\ hist[3].op = "get" /\ hist[3].key = <<1>>
    /\ file.mode = "a+b"
    /\ IndexHas(index, <<1>>) /\ IndexHas(sindex, <<1>>)
    /\ result.err = ""
    /\ ~file.h.open /\ ~sfile.h.open

====
